---- MODULE Spec2Model ----
(***************************************************************************)
(* TinyTest: the TestResults accumulator (tinytest.cpp) and the            *)
(* ExecuteSuite test-execution engine (tinytest.h).                        *)
(***************************************************************************)
EXTENDS Integers, Sequences, FiniteSets, TLC

(***************************************************************************)
(* uint32_t.  The counters of TestResults are 32-bit unsigned.  A value is *)
(* kept as its two 16-bit halves <<high, low>>, so that sums wrap modulo   *)
(* 2^32 exactly as the machine's do.                                       *)
(***************************************************************************)
Limb == 2^16

U32(n) == <<n \div Limb, n % Limb>>

UINT32_MAX == <<Limb - 1, Limb - 1>>

\* a + b as it would be if the sum stopped at the largest uint32_t.
AddU32Saturating(a, b) ==
    LET low == a[2] + b[2]
        high == a[1] + b[1] + (low \div Limb)
    IN  IF high >= Limb THEN <<Limb - 1, Limb - 1>>
                        ELSE <<high, low % Limb>>

\* a + b on uint32_t operands
AddU32(a, b) ==
    LET low == a[2] + b[2]
        high == a[1] + b[1] + (low \div Limb)
    IN  <<high % Limb, low % Limb>>

\* c++ on a uint32_t
IncU32(c) == AddU32(c, U32(1))

(***************************************************************************)
(* class TestResults                                                       *)
(***************************************************************************)

\* TestResults::TestResults(errors, failed, passed, skipped, total, ...)
TestResults(errors, failed, passed, skipped, total, error_messages, failure_messages, skip_messages) ==
    [error_messages_   |-> error_messages,
     errors_           |-> errors,
     failed_           |-> failed,
     failure_messages_ |-> failure_messages,
     passed_           |-> passed,
     skip_messages_    |-> skip_messages,
     skipped_          |-> skipped,
     total_            |-> total]

\* TestResults::TestResults()
EmptyResults ==
    TestResults(U32(0), U32(0), U32(0), U32(0), U32(0), <<>>, <<>>, <<>>)

\* The copy constructor as it would be with skip_messages_ left out of the
\* initializer list.
CopyWithoutSkipMessages(other) ==
    [error_messages_   |-> other.error_messages_,
     errors_           |-> other.errors_,
     failed_           |-> other.failed_,
     failure_messages_ |-> other.failure_messages_,
     passed_           |-> other.passed_,
     skip_messages_    |-> <<>>,
     skipped_          |-> other.skipped_,
     total_            |-> other.total_]

\* TestResults::TestResults(const TestResults& other)
Copy(other) ==
    [error_messages_   |-> other.error_messages_,
     errors_           |-> other.errors_,
     failed_           |-> other.failed_,
     failure_messages_ |-> other.failure_messages_,
     passed_           |-> other.passed_,
     skip_messages_    |-> other.skip_messages_,
     skipped_          |-> other.skipped_,
     total_            |-> other.total_]

\* TestResults& TestResults::Error()
Error(r) == [r EXCEPT !.errors_ = IncU32(@)]

\* Error(message) as it would be if an error counted as a test run.
ErrorMsgCountingTotal(r, message) ==
    [r EXCEPT !.total_ = IncU32(@),
              !.errors_ = IncU32(@),
              !.error_messages_ = Append(@, message)]

\* TestResults& TestResults::Error(string message)
ErrorMsg(r, message) ==
    [r EXCEPT !.errors_ = IncU32(@),
              !.error_messages_ = Append(@, message)]

\* Fail() as it would be had the total_++ been left out.
FailWithoutTotal(r) == [r EXCEPT !.failed_ = IncU32(@)]

\* TestResults& TestResults::Fail()
Fail(r) == [r EXCEPT !.total_ = IncU32(@), !.failed_ = IncU32(@)]

\* Fail(message) as it would be if only the message were kept.
FailMsgWithoutCounting(r, message) ==
    [r EXCEPT !.failure_messages_ = Append(@, message)]

\* TestResults& TestResults::Fail(const string& message)
FailMsg(r, message) ==
    [r EXCEPT !.total_ = IncU32(@),
              !.failed_ = IncU32(@),
              !.failure_messages_ = Append(@, message)]

\* TestResults& TestResults::Pass()
Pass(r) == [r EXCEPT !.total_ = IncU32(@), !.passed_ = IncU32(@)]

\* TestResults& TestResults::Skip()
Skip(r) == [r EXCEPT !.total_ = IncU32(@), !.skipped_ = IncU32(@)]

\* Skip(message) as it would be if the message were pushed on the failure
\* messages.
SkipMsgIntoFailures(r, message) ==
    [r EXCEPT !.total_ = IncU32(@),
              !.skipped_ = IncU32(@),
              !.failure_messages_ = Append(@, message)]

\* TestResults& TestResults::Skip(const string& message)
SkipMsg(r, message) ==
    [r EXCEPT !.total_ = IncU32(@),
              !.skipped_ = IncU32(@),
              !.skip_messages_ = Append(@, message)]

\* The read accessors.
Errors(r) == r.errors_
Failed(r) == r.failed_
Passed(r) == r.passed_
Skipped(r) == r.skipped_
Total(r) == r.total_
ErrorMessages(r) == r.error_messages_
FailureMessages(r) == r.failure_messages_
SkipMessages(r) == r.skip_messages_

\* operator+ as it would be had the total been taken from this alone.
PlusKeepingThisTotal(this, other) ==
    TestResults(AddU32(this.errors_, other.errors_),
                AddU32(this.failed_, other.failed_),
                AddU32(this.passed_, other.passed_),
                AddU32(this.skipped_, other.skipped_),
                this.total_,
                this.error_messages_ \o other.error_messages_,
                this.failure_messages_ \o other.failure_messages_,
                this.skip_messages_ \o other.skip_messages_)

\* insert(end() - 1, ...) where insert(end(), ...) is meant: the inserted
\* range lands before the last element present.
InsertBeforeLast(messages, other_messages) ==
    IF messages = <<>>
        THEN other_messages
        ELSE SubSeq(messages, 1, Len(messages) - 1) \o other_messages
             \o <<messages[Len(messages)]>>

\* operator+ as it would be had other's failure messages been inserted one
\* place before the end.
PlusInsertingBeforeLast(this, other) ==
    TestResults(AddU32(this.errors_, other.errors_),
                AddU32(this.failed_, other.failed_),
                AddU32(this.passed_, other.passed_),
                AddU32(this.skipped_, other.skipped_),
                AddU32(this.total_, other.total_),
                this.error_messages_ \o other.error_messages_,
                InsertBeforeLast(this.failure_messages_, other.failure_messages_),
                this.skip_messages_ \o other.skip_messages_)

\* operator+ as it would be had the errors of other been left out.
PlusDroppingOtherErrors(this, other) ==
    TestResults(this.errors_,
                AddU32(this.failed_, other.failed_),
                AddU32(this.passed_, other.passed_),
                AddU32(this.skipped_, other.skipped_),
                AddU32(this.total_, other.total_),
                this.error_messages_,
                this.failure_messages_ \o other.failure_messages_,
                this.skip_messages_ \o other.skip_messages_)

\* operator+ as it would be had the failure messages been inserted other-first
\* and the passed count taken from this alone.
PlusMisordered(this, other) ==
    TestResults(AddU32(this.errors_, other.errors_),
                AddU32(this.failed_, other.failed_),
                this.passed_,
                AddU32(this.skipped_, other.skipped_),
                AddU32(this.total_, other.total_),
                this.error_messages_ \o other.error_messages_,
                other.failure_messages_ \o this.failure_messages_,
                this.skip_messages_ \o other.skip_messages_)

\* TestResults TestResults::operator+(const TestResults& other) const
Plus(this, other) ==
    TestResults(AddU32(this.errors_, other.errors_),
                AddU32(this.failed_, other.failed_),
                AddU32(this.passed_, other.passed_),
                AddU32(this.skipped_, other.skipped_),
                AddU32(this.total_, other.total_),
                this.error_messages_ \o other.error_messages_,
                this.failure_messages_ \o other.failure_messages_,
                this.skip_messages_ \o other.skip_messages_)

\* A moved-from std::string is left empty.
MovedFrom(messages) == [i \in 1..Len(messages) |-> ""]

\* vector::insert(end(), other.begin(), other.end()).  When other is the
\* vector itself the range lies inside the container being grown, which the
\* container requirements forbid: the appended half is then either a copy of
\* the old elements (enough capacity, or the old block is copied) or what is
\* left of them after they were moved to a new block.
InsertAtEnd(messages, other_messages, aliased) ==
    IF aliased
        THEN {messages \o other_messages, messages \o MovedFrom(other_messages)}
        ELSE {messages \o other_messages}

\* TestResults& TestResults::operator+=(const TestResults& other): the set of
\* values *this may hold afterwards; aliased is true for r += r.
PlusAssign(this, other, aliased) ==
    {[error_messages_   |-> em,
      errors_           |-> AddU32(this.errors_, other.errors_),
      failed_           |-> AddU32(this.failed_, other.failed_),
      failure_messages_ |-> fm,
      passed_           |-> AddU32(this.passed_, other.passed_),
      skip_messages_    |-> sm,
      skipped_          |-> AddU32(this.skipped_, other.skipped_),
      total_            |-> AddU32(this.total_, other.total_)] :
        em \in InsertAtEnd(this.error_messages_, other.error_messages_, aliased),
        fm \in InsertAtEnd(this.failure_messages_, other.failure_messages_, aliased),
        sm \in InsertAtEnd(this.skip_messages_, other.skip_messages_, aliased)}

(***************************************************************************)
(* Optional values, hooks, comparators, the function under test.           *)
(***************************************************************************)

\* std::nullopt
NullOpt == "nullopt"

\* DefaultTestConfigureFunction()
DefaultTestConfigureFunction == NullOpt

\* DefaultTestCompareFunction<TResult>()
DefaultTestCompareFunction == NullOpt

\* TResult is bool, as in every suite of tinytest_test.cpp.
TResult == BOOLEAN

\* The user comparators the suites are built from: a TestCompareFunction is
\* named by what it computes; "throws" raises instead of returning.
CompareFunctions == {"equal", "not_equal", "always_true", "throws"}

\* The default comparator of ExecuteSuite: [](l, r) { return l == r; }
StructuralEquality == "l == r"

\* Compare_function(expected, actual): "true", "false" or "raised"
ApplyCompare(fn, expected, actual) ==
    CASE fn = StructuralEquality -> IF expected = actual THEN "true" ELSE "false"
      [] fn = "equal"            -> IF expected = actual THEN "true" ELSE "false"
      [] fn = "not_equal"        -> IF expected # actual THEN "true" ELSE "false"
      [] fn = "always_true"      -> "true"
      [] fn = "throws"           -> "raised"

\* What a function under test can throw: the type of the thrown object, given
\* by the set of handler types it matches, and the text it carries.
Payloads ==
    [exception |-> [matches |-> {"std::exception"}, text |-> "std::exception"],
     string    |-> [matches |-> {"std::string"}, text |-> "burp"],
     cstring   |-> [matches |-> {"const char*"}, text |-> "burp"],
     int       |-> [matches |-> {}, text |-> "42"],
     derived   |-> [matches |-> {"std::exception", "std::string"},
                    text |-> "both"]]

\* function_to_test, applied to the input parameters of a case: the suites
\* run one function whose single parameter says what it does.
function_to_test(input_params) ==
    CASE input_params[1] = "true"  -> [raised |-> FALSE, value |-> TRUE,
                                       payload |-> Payloads.int]
      [] input_params[1] = "false" -> [raised |-> FALSE, value |-> FALSE,
                                       payload |-> Payloads.int]
      [] OTHER -> [raised |-> TRUE, value |-> FALSE,
                   payload |-> Payloads[input_params[1]]]

\* MakeTest(test_name, expected, input_params, test_compare_function,
\*          before_each, after_each, is_enabled)
MakeTest(test_name, expected, input_params, test_compare_function, before_each, after_each, is_enabled) ==
    [test_name             |-> test_name,
     expected_output       |-> expected,
     input_params          |-> input_params,
     test_compare_function |-> test_compare_function,
     before_each           |-> before_each,
     after_each            |-> after_each,
     is_enabled            |-> is_enabled]

\* CPPUtils::PrettyPrint(os, value) for a bool: the value as 1 or 0, quoted.
PrettyPrint(value) == IF value THEN "\"1\"" ELSE "\"0\""

(***************************************************************************)
(* The pieces of ExecuteSuite's lambda that are pure.                      *)
(***************************************************************************)

\* The label as it would be without the suite's name in front.
QualifiedTestLabelCaseOnly(suite_label, test_label) == test_label

\* qualified_test_label = suite_label + "::" + test_label
QualifiedTestLabel(suite_label, test_label) == suite_label \o "::" \o test_label

\* The resolution as it would be with the suite's comparator tried first.
ResolveCompareSuiteFirst(test_data, suite_compare) ==
    IF suite_compare # NullOpt
        THEN [source |-> "suite", fn |-> suite_compare]
    ELSE IF test_data.test_compare_function # NullOpt
        THEN [source |-> "test", fn |-> test_data.test_compare_function]
    ELSE [source |-> "default", fn |-> StructuralEquality]

\* Step 2a: Compare_function, and where it came from: the case ("test"), the
\* suite ("suite") or the lambda written in ExecuteSuite ("default")
ResolveCompare(test_data, suite_compare) ==
    IF test_data.test_compare_function # NullOpt
        THEN [source |-> "test", fn |-> test_data.test_compare_function]
    ELSE IF suite_compare # NullOpt
        THEN [source |-> "suite", fn |-> suite_compare]
    ELSE [source |-> "default", fn |-> StructuralEquality]

\* The handlers as they would be with the std::string handler written first.
HandlersStringFirst == <<"std::string", "std::exception", "const char*", "...">>

\* The handlers of the try block, in the order they are written.
Handlers == <<"std::exception", "std::string", "const char*", "...">>

\* The handler that catches a payload: the first one that matches.
CaughtBy(payload) ==
    LET Matching == {h \in 1..Len(Handlers) :
                        Handlers[h] = "..." \/ Handlers[h] \in payload.matches}
    IN  Handlers[CHOOSE h \in Matching : \A g \in Matching : h <= g]

\* The text each handler builds (os.str(), or message in the last handler).
CaughtMessage(payload) ==
    LET handler == CaughtBy(payload)
    IN  CASE handler = "std::exception" ->
                 "Caught exception \"" \o payload.text \o "\"."
          [] handler = "std::string" ->
                 "Caught string \"" \o payload.text \o "\"."
          [] handler = "const char*" ->
                 "Caught c-string \"" \o payload.text \o "\"."
          [] handler = "..." ->
                 "Caught something that is neither an std::exception "
                 \o "nor an std::string."

\* TResult actual; read after function_to_test threw.  A bool declared without
\* an initializer holds an indeterminate value.
UninitializedActual == TResult

\* Step 2d: the text of a failure
FailureText(expected_output, actual_value) ==
    "expected: " \o PrettyPrint(expected_output)
    \o ", actual: " \o PrettyPrint(actual_value)

\* The message as it would be without the reason.has_value() test.
SkipMessageAlwaysBecause(suite_label, test_label, reason) ==
    QualifiedTestLabel(suite_label, test_label) \o " because " \o reason

\* SkipTest(results, suite_label, test_label, reason): the message it records
SkipMessage(suite_label, test_label, reason) ==
    QualifiedTestLabel(suite_label, test_label)
    \o (IF reason # NullOpt THEN " because " \o reason ELSE "")

\* SkipTest(results, suite_label, test_label, reason): the accumulator after
SkipTest(r, suite_label, test_label, reason) ==
    SkipMsg(r, SkipMessage(suite_label, test_label, reason))

\* SkipTest(results, suite_label, test_label, reason): the line it prints
SkipLine(test_label, reason) ==
    "  {construction}Skipping Test: " \o test_label
    \o (IF reason # NullOpt THEN " because " \o reason ELSE "")

(***************************************************************************)
(* Coalesce and InterceptCout.                                             *)
(***************************************************************************)

\* The closure Coalesce builds: [&first, &second]() { first.value()();
\* second.value()(); }.  It holds references to first and second, the
\* parameters of Coalesce, which are objects of that call.
Lambda == "[&first, &second]"

\* Coalesce as it would be if it returned first whenever second is absent or
\* first is: a lone second hook is lost.
CoalesceFirstOnly(first, second) ==
    IF first # NullOpt /\ second # NullOpt THEN Lambda ELSE first

\* MaybeTestConfigureFunction Coalesce(MaybeTestConfigureFunction first,
\*                                     MaybeTestConfigureFunction second)
Coalesce(first, second) ==
    IF first # NullOpt
        THEN IF second # NullOpt
                THEN Lambda
                ELSE first
        ELSE second

\* What is found where a parameter of Coalesce was, once Coalesce has
\* returned and the parameter has been destroyed.
Overwritten == "overwritten"

\* A read through a reference to a destroyed parameter of Coalesce.  The
\* object's storage may still hold the optional as it was, may hold the
\* optional its destructor left (disengaged), or may have been used again for
\* something else.
DanglingRead(parameter) == {parameter, NullOpt, Overwritten}

\* One call of a hook as the caller sees it: the user hooks that ran, in
\* order, how the call ended ("returned", "raised" or "crashed") and, when it
\* raised, what raised.
Invocation(hook, ran, outcome, raised_by) ==
    [hook |-> hook, calls |-> ran, outcome |-> outcome, raised_by |-> raised_by]

\* maybe_hook.value()() inside the closure, after the hooks in ran have run:
\* value() throws std::bad_optional_access on a disengaged optional; a call
\* through overwritten storage ends the program.
ValueCall(hook, maybe_hook, ran) ==
    CASE maybe_hook = NullOpt ->
             {Invocation(hook, ran, "raised", "std::bad_optional_access")}
      [] maybe_hook = Overwritten ->
             {Invocation(hook, ran, "crashed", "")}
      [] OTHER ->
             {Invocation(hook, Append(ran, maybe_hook), "returned", ""),
              Invocation(hook, Append(ran, maybe_hook), "raised", maybe_hook)}

\* hook.value()() for a hook Coalesce(first, second) returned: the ways the
\* call can go.  A user's hook runs and returns or raises; the closure reads
\* first and second through its references, long after Coalesce returned.
Invoke(hook, first, second) ==
    IF hook # Lambda
        THEN ValueCall(hook, hook, <<>>)
        ELSE UNION {IF head.outcome # "returned"
                        THEN {head}
                        ELSE UNION {ValueCall(hook, b, head.calls) :
                                        b \in DanglingRead(second)} :
                    head \in UNION {ValueCall(hook, a, <<>>) :
                                        a \in DanglingRead(first)}}

\* The stream buffer std::cout has when the program starts.
OriginalBuffer == "original"

\* os.rdbuf() of the std::ostringstream os local to a call of InterceptCout
\* that has ended: the buffer was destroyed with os.
DestroyedBuffer == "os.rdbuf() of a destroyed os"

\* os.str(): the text written to os, in the order written
RECURSIVE Str(_)
Str(written) ==
    IF written = <<>> THEN "" ELSE Head(written) \o Str(Tail(written))

\* One call of InterceptCout as the caller sees it: the function executed,
\* std::cout.rdbuf() at entry (saved_buffer) and at exit, how the call ended
\* and the string it returned.
Intercepted(function_to_execute, saved_buffer, at_exit, outcome, returned) ==
    [function |-> function_to_execute, saved_buffer |-> saved_buffer,
     at_exit |-> at_exit, outcome |-> outcome, returned |-> returned]

\* std::string InterceptCout(function_to_execute, maybe_args), entered with
\* std::cout.rdbuf() == saved_buffer.  While the function runs std::cout
\* writes to os.  When it returns, std::cout gets saved_buffer back and
\* os.str() is returned.  When it raises, the exception leaves InterceptCout
\* from the call: the lines after it are not run, os is destroyed by the
\* unwinding and std::cout keeps the pointer to its buffer.
InterceptCout(function_to_execute, saved_buffer) ==
    LET os == function_to_execute.writes
    IN  IF function_to_execute.raises
            THEN Intercepted(function_to_execute, saved_buffer,
                             DestroyedBuffer, "raised", "")
            ELSE Intercepted(function_to_execute, saved_buffer,
                             saved_buffer, "returned", Str(os))

(***************************************************************************)
(* State.                                                                  *)
(*                                                                         *)
(* A caller of TestResults:                                                *)
(*   obj      the TestResults objects the caller holds                     *)
(*   last     the most recent TestResults operation: its name, the values  *)
(*            of *this and of its argument before the call, and the value  *)
(*            *this (or, for operator+, the returned object) has after it  *)
(*   budget   the number of TestResults operations the caller still makes  *)
(*                                                                         *)
(* One call of ExecuteSuite:                                               *)
(*   suite_label, tests, suite_Compare, before_all, after_all, is_enabled  *)
(*            its parameters (function_to_test is the operator above)      *)
(*   pc       where the call is: "start", "test" (top of the for_each      *)
(*            lambda), "execute", "compare", "teardown", "returned",       *)
(*            "propagated" (an exception left ExecuteSuite); "idle" when   *)
(*            no call is modelled                                          *)
(*   it       the position of for_each in tests                            *)
(*   results  the local TestResults results                                *)
(*   actual   the local TResult actual of the current case                 *)
(*   trace    every call ExecuteSuite has made, in order: hooks, function  *)
(*            under test, comparators and the Record calls on results      *)
(*   cout     the lines written to std::cout; the emoji of the source's    *)
(*            literals are written {rocket}, {construction}, {fire},       *)
(*            {check} and {cross}                                          *)
(*                                                                         *)
(* A caller of Coalesce:                                                   *)
(*   fn1, fn2        the arguments it passes                               *)
(*   coalesced       what Coalesce returned to it                          *)
(*   lines           the log the hooks append to when they run             *)
(*   invoked         the most recent call of coalesced.value(): the hook   *)
(*                   called, the hooks that ran, and how the call ended    *)
(*                                                                         *)
(* A caller of InterceptCout:                                              *)
(*   rdbuf           the stream buffer std::cout writes to                 *)
(*   terminal        the text that reached the buffer std::cout had at     *)
(*                   the start                                             *)
(*   capture         the most recent call of InterceptCout: the function   *)
(*                   executed, rdbuf before and after, how the call ended  *)
(*                   and the string returned                               *)
(*                                                                         *)
(*   process         "running", or "crashed" once the program has died     *)
(*   calls           the number of calls the caller of Coalesce or of      *)
(*                   InterceptCout still makes                             *)
(***************************************************************************)
VARIABLES obj, last, budget,
          suite_label, tests, suite_Compare, before_all, after_all, is_enabled,
          test_suite,
          pc, it, results, actual, trace, cout,
          fn1, fn2, coalesced, lines, invoked,
          rdbuf, terminal, capture, process, calls,
          os, printed

resultsVars == <<obj, last, budget>>

params == <<suite_label, tests, suite_Compare, before_all, after_all, is_enabled>>

\* The parameters and the tuple the tuple overload was called with.
callVars == <<suite_label, tests, suite_Compare, before_all, after_all,
              is_enabled, test_suite>>

suiteVars == <<suite_label, tests, suite_Compare, before_all, after_all,
               is_enabled, test_suite, pc, it, results, actual, trace, cout>>

printVars == <<os, printed>>

utilVars == <<fn1, fn2, coalesced, lines, invoked,
              rdbuf, terminal, capture, process, calls, os, printed>>

vars == <<obj, last, budget,
          suite_label, tests, suite_Compare, before_all, after_all, is_enabled,
          test_suite,
          pc, it, results, actual, trace, cout,
          fn1, fn2, coalesced, lines, invoked,
          rdbuf, terminal, capture, process, calls,
          os, printed>>

\* How many operations a caller makes on accumulators built from empty ones.
MaxOps == 3

\* How many combinations a caller makes on constructed accumulators.
MaxCombines == 2

\* How many cases a suite has at most.
MaxTests == 2

\* The TestResults objects the caller holds.
Objects == {1, 2}

\* The message texts a caller passes to Error, Fail and Skip.
Messages == {"x", "y"}

\* The place of the result of an operator+ that the caller keeps in a new
\* object (const TestResults third = first + second;) and not in one of the
\* objects it operates on.
Temporary == 0

NoCall == [op |-> "none", this |-> EmptyResults, other |-> EmptyResults,
           arg |-> "", aliased |-> FALSE, out |-> EmptyResults,
           target |-> Temporary,
           before |-> [i \in Objects |-> EmptyResults]]

\* One operation as the caller sees it.  target is the object the caller's
\* statement writes (Temporary when it writes none of them) and before is what
\* the caller's objects held when the statement began.
Call(op, this, other, arg, aliased, out, target) ==
    [op |-> op, this |-> this, other |-> other, arg |-> arg,
     aliased |-> aliased, out |-> out, target |-> target, before |-> obj]

\* The caller's statement obj[i].<op>(arg), which leaves out in obj[i].
Record(i, op, arg, out) ==
    /\ budget > 0
    /\ obj' = [obj EXCEPT ![i] = out]
    /\ last' = Call(op, obj[i], EmptyResults, arg, FALSE, out, i)
    /\ budget' = budget - 1
    /\ UNCHANGED <<suiteVars, utilVars>>

CallError(i) == Record(i, "Error", "", Error(obj[i]))

CallErrorMsg(i, message) == Record(i, "ErrorMsg", message, ErrorMsg(obj[i], message))

CallFail(i) == Record(i, "Fail", "", Fail(obj[i]))

CallFailMsg(i, message) == Record(i, "FailMsg", message, FailMsg(obj[i], message))

CallPass(i) == Record(i, "Pass", "", Pass(obj[i]))

CallSkip(i) == Record(i, "Skip", "", Skip(obj[i]))

CallSkipMsg(i, message) == Record(i, "SkipMsg", message, SkipMsg(obj[i], message))

\* TestResults obj[j](obj[i]): object j is made anew as a copy of object i.
CallCopy(i, j) ==
    /\ budget > 0
    /\ i # j
    /\ LET out == Copy(obj[i])
       IN  /\ obj' = [obj EXCEPT ![j] = out]
           /\ last' = Call("Copy", obj[j], obj[i], "", FALSE, out, j)
    /\ budget' = budget - 1
    /\ UNCHANGED <<suiteVars, utilVars>>

\* obj[k] = obj[i] + obj[j], or third = obj[i] + obj[j] when k is Temporary
CallPlus(i, j, k) ==
    /\ budget > 0
    /\ LET out == Plus(obj[i], obj[j])
       IN  /\ obj' = IF k = Temporary THEN obj ELSE [obj EXCEPT ![k] = out]
           /\ last' = Call("Plus", obj[i], obj[j], "", i = j, out, k)
    /\ budget' = budget - 1
    /\ UNCHANGED <<suiteVars, utilVars>>

\* obj[i] += obj[j] as it would be if the messages of other were moved out
\* of it instead of copied.
CallPlusAssignMovingFrom(i, j) ==
    /\ budget > 0
    /\ \E out \in PlusAssign(obj[i], obj[j], i = j) :
           /\ obj' = [m \in Objects |->
                         IF m = i THEN out
                         ELSE IF m = j
                             THEN [obj[j] EXCEPT !.error_messages_ = <<>>,
                                                 !.failure_messages_ = <<>>,
                                                 !.skip_messages_ = <<>>]
                         ELSE obj[m]]
           /\ last' = Call("PlusAssign", obj[i], obj[j], "", i = j, out, i)
    /\ budget' = budget - 1
    /\ UNCHANGED <<suiteVars, utilVars>>

\* obj[i] += obj[j]
CallPlusAssign(i, j) ==
    /\ budget > 0
    /\ \E out \in PlusAssign(obj[i], obj[j], i = j) :
           /\ obj' = [obj EXCEPT ![i] = out]
           /\ last' = Call("PlusAssign", obj[i], obj[j], "", i = j, out, i)
    /\ budget' = budget - 1
    /\ UNCHANGED <<suiteVars, utilVars>>

\* test_suite when ExecuteSuite is called with its seven parameters.
NoTuple == <<>>

\* No ExecuteSuite call is modelled.
NoSuite ==
    /\ test_suite = NoTuple
    /\ suite_label = ""
    /\ tests = <<>>
    /\ suite_Compare = NullOpt
    /\ before_all = NullOpt
    /\ after_all = NullOpt
    /\ is_enabled = FALSE
    /\ pc = "idle"
    /\ it = 0
    /\ results = EmptyResults
    /\ actual = FALSE
    /\ trace = <<>>
    /\ cout = <<>>

\* coalesced before Coalesce has been called
NotCalled == "not called"

NoInvocation == Invocation(NotCalled, <<>>, "none", "")

NoCapture ==
    Intercepted([writes |-> <<>>, raises |-> FALSE], OriginalBuffer,
                OriginalBuffer, "none", "")

\* No call of Coalesce is modelled.
NoCoalesce ==
    /\ fn1 = NullOpt
    /\ fn2 = NullOpt
    /\ coalesced = NotCalled
    /\ lines = <<>>
    /\ invoked = NoInvocation

\* No call of InterceptCout is modelled.
NoIntercept ==
    /\ rdbuf = OriginalBuffer
    /\ terminal = <<>>
    /\ capture = NoCapture

\* No call of PrintResults is modelled.
NoPrint ==
    /\ os = <<>>
    /\ printed = <<>>

\* None is.
NoUtil ==
    /\ NoCoalesce
    /\ NoIntercept
    /\ NoPrint
    /\ process = "running"
    /\ calls = 0

(***************************************************************************)
(* SpecRecord: accumulators built from the default constructor by the      *)
(* Record operations and the two combinations.                             *)
(***************************************************************************)
InitRecord ==
    /\ obj = [i \in Objects |-> EmptyResults]
    /\ last = NoCall
    /\ budget = MaxOps
    /\ NoSuite
    /\ NoUtil

NextRecord ==
    \/ \E i \in Objects : CallError(i)
    \/ \E i \in Objects, message \in Messages : CallErrorMsg(i, message)
    \/ \E i \in Objects : CallFail(i)
    \/ \E i \in Objects, message \in Messages : CallFailMsg(i, message)
    \/ \E i \in Objects : CallPass(i)
    \/ \E i \in Objects : CallSkip(i)
    \/ \E i \in Objects, message \in Messages : CallSkipMsg(i, message)
    \/ \E i \in Objects, j \in Objects, k \in Objects \cup {Temporary} :
           CallPlus(i, j, k)
    \/ \E i \in Objects, j \in Objects : CallPlusAssign(i, j)
    \/ \E i \in Objects, j \in Objects : CallCopy(i, j)

SpecRecord == InitRecord /\ [][NextRecord]_vars

(***************************************************************************)
(* SpecWrap: the same calls on accumulators whose counters are at the      *)
(* largest uint32_t, so that the next increment or sum wraps.              *)
(***************************************************************************)

\* Accumulators at the end of the range of uint32_t, each with total ==
\* failed + passed + skipped.
AtTheLimit ==
    {TestResults(UINT32_MAX, UINT32_MAX, U32(0), U32(0), UINT32_MAX,
                 <<>>, <<>>, <<>>),
     TestResults(U32(0), <<Limb - 1, Limb - 2>>, U32(0), U32(1), UINT32_MAX,
                 <<>>, <<>>, <<"x">>)}

InitWrap ==
    /\ obj \in {o \in [Objects -> AtTheLimit \cup {EmptyResults}] :
                   o[1] \in AtTheLimit /\ o[2] = EmptyResults}
    /\ last = NoCall
    /\ budget = MaxOps
    /\ NoSuite
    /\ NoUtil

SpecWrap == InitWrap /\ [][NextRecord]_vars

(***************************************************************************)
(* SpecCombine: operator+ and operator+= on accumulators a caller built    *)
(* with the eight-argument constructor, whose counts reach up to the       *)
(* largest uint32_t.                                                       *)
(***************************************************************************)

\* The counts and messages the caller constructs object i from: the counts of
\* tinytest_test.cpp:177, whose total is not the sum, or counts near the
\* largest uint32_t whose total is the sum modulo 2^32.
Constructed(i) ==
    LET tag == IF i = 1 THEN "1" ELSE "2"
    IN  {TestResults(counts.errors, counts.failed, U32(3), U32(4),
                     counts.total, error_messages,
                     <<"f" \o tag, "g" \o tag>>, <<"s" \o tag>>) :
            counts \in {[errors |-> U32(1), failed |-> U32(2),
                         total |-> U32(5)],
                        [errors |-> UINT32_MAX, failed |-> <<Limb - 1, 0>>,
                         total |-> <<Limb - 1, 7>>]},
            error_messages \in {<<>>, <<"e" \o tag>>}}

InitCombine ==
    /\ obj \in {o \in [Objects -> UNION {Constructed(i) : i \in Objects}] :
                   \A i \in Objects : o[i] \in Constructed(i)}
    /\ last = NoCall
    /\ budget = MaxCombines
    /\ NoSuite
    /\ NoUtil

NextCombine ==
    \/ \E i \in Objects, j \in Objects, k \in Objects \cup {Temporary} :
           CallPlus(i, j, k)
    \/ \E i \in Objects, j \in Objects : CallPlusAssign(i, j)

SpecCombine == InitCombine /\ [][NextCombine]_vars

(***************************************************************************)
(* ExecuteSuite(suite_label, function_to_test, tests, suite_Compare,       *)
(*              before_all, after_all, is_enabled)                         *)
(***************************************************************************)

\* One entry of trace.  call is the callee: "before_all", "before_each",
\* "function_to_test", "Compare", "after_each", "after_all", or the Record
\* operation called on results ("Error", "Fail", "Pass", "Skip"); test is the
\* position of the case it was made for (0 for the suite's own hooks);
\* outcome is "returned" or "raised" (for a comparator "true", "false" or
\* "raised").
Event(call, test, fn, expected, actual_value, outcome, message) ==
    [call |-> call, test |-> test, fn |-> fn, expected |-> expected,
     actual |-> actual_value, outcome |-> outcome, message |-> message]

HookEvent(call, test, fn, outcome) ==
    Event(call, test, fn, FALSE, FALSE, outcome, "")

RecordEvent(call, test, message) ==
    Event(call, test, "results", FALSE, FALSE, "returned", message)

\* What a call of a user's hook can do.
HookOutcomes == {"returned", "raised"}

\* The disabled branch as it would be if it looked at each case's own flag
\* and passed over the cases that are disabled themselves.
RECURSIVE SkipAllEnabledCases(_, _, _, _)
SkipAllEnabledCases(r, label, cases, n) ==
    IF n > Len(cases) THEN r
    ELSE SkipAllEnabledCases(
             IF cases[n].is_enabled
                 THEN SkipTest(r, label, cases[n].test_name, "the suite is disabled.")
                 ELSE r,
             label, cases, n + 1)

\* The disabled branch: for (auto test : tests) SkipTest(results, suite_label,
\* test_label, "the suite is disabled."), from case n on.
RECURSIVE SkipAll(_, _, _, _)
SkipAll(r, label, cases, n) ==
    IF n > Len(cases) THEN r
    ELSE SkipAll(SkipTest(r, label, cases[n].test_name, "the suite is disabled."),
                 label, cases, n + 1)

\* if (!is_enabled) { ... return results; }
SuiteDisabled ==
    /\ pc = "start"
    /\ ~is_enabled
    /\ results' = SkipAll(results, suite_label, tests, 1)
    /\ trace' = trace \o
           [n \in 1..Len(tests) |->
               RecordEvent("Skip", n,
                   SkipMessage(suite_label, tests[n].test_name,
                               "the suite is disabled."))]
    /\ cout' = cout
           \o <<"{construction}Skipping suite: " \o suite_label
                \o " because it is disabled.">>
           \o [n \in 1..Len(tests) |->
                  SkipLine(tests[n].test_name, "the suite is disabled.")]
    /\ pc' = "returned"
    /\ UNCHANGED <<callVars, it, actual, resultsVars, utilVars>>

\* The empty branch as it would be if the suite's hooks were run around the
\* empty loop before returning.
SuiteEmptyRunningHooks ==
    /\ pc = "start"
    /\ is_enabled
    /\ Len(tests) = 0
    /\ cout' = Append(cout, "{construction}Skipping suite: " \o suite_label
                            \o " because it is empty.")
    /\ trace' = IF before_all # NullOpt
                    THEN Append(trace, HookEvent("before_all", 0, before_all, "returned"))
                    ELSE trace
    /\ pc' = "returned"
    /\ UNCHANGED <<callVars, it, results, actual, resultsVars, utilVars>>

\* The empty branch as it would be if the empty check came before the
\* disabled check.
SuiteEmptyCheckedFirst ==
    /\ pc = "start"
    /\ Len(tests) = 0
    /\ cout' = Append(cout, "{construction}Skipping suite: " \o suite_label
                            \o " because it is empty.")
    /\ pc' = "returned"
    /\ UNCHANGED <<callVars, it, results, actual, trace, resultsVars, utilVars>>

\* if (tests.size() == 0) { ... return results; }
SuiteEmpty ==
    /\ pc = "start"
    /\ is_enabled
    /\ Len(tests) = 0
    /\ cout' = Append(cout, "{construction}Skipping suite: " \o suite_label
                            \o " because it is empty.")
    /\ pc' = "returned"
    /\ UNCHANGED <<callVars, it, results, actual, trace, resultsVars, utilVars>>

\* The call of a hook as it would be inside a try block that swallows what
\* the hook raises.
InvokeIfPresentSwallowing(hook, call, test, next_pc) ==
    IF hook # NullOpt
        THEN \E outcome \in HookOutcomes :
                /\ trace' = Append(trace, HookEvent(call, test, hook, outcome))
                /\ pc' = next_pc
        ELSE /\ trace' = trace
             /\ pc' = next_pc

\* if (hook.has_value()) { (*hook)(); }: the hook, when there is one, is
\* called; if it raises the exception leaves ExecuteSuite, otherwise (and
\* when there is no hook) the call goes on at next_pc.
InvokeIfPresent(hook, call, test, next_pc) ==
    IF hook # NullOpt
        THEN \E outcome \in HookOutcomes :
                /\ trace' = Append(trace, HookEvent(call, test, hook, outcome))
                /\ pc' = IF outcome = "raised" THEN "propagated" ELSE next_pc
        ELSE /\ trace' = trace
             /\ pc' = next_pc

\* Suite Setup as it would be if before_all were only run for a suite whose
\* first case is enabled.
SuiteSetupWhenFirstCaseRuns ==
    /\ pc = "start"
    /\ is_enabled
    /\ Len(tests) # 0
    /\ cout' = Append(cout, "{rocket}Beginning Suite: " \o suite_label)
    /\ InvokeIfPresent(IF tests[1].is_enabled THEN before_all ELSE NullOpt,
                       "before_all", 0, "test")
    /\ it' = 1
    /\ UNCHANGED <<callVars, results, actual, resultsVars, utilVars>>

\* "Beginning Suite" and Step 1: Suite Setup
SuiteSetup ==
    /\ pc = "start"
    /\ is_enabled
    /\ Len(tests) # 0
    /\ cout' = Append(cout, "{rocket}Beginning Suite: " \o suite_label)
    /\ InvokeIfPresent(before_all, "before_all", 0, "test")
    /\ it' = 1
    /\ UNCHANGED <<callVars, results, actual, resultsVars, utilVars>>

\* Step 2a as it would be if a skipped case went on to Step 2e and wrote its
\* Ending Test line.
TestSkipEndingTest ==
    /\ pc = "test"
    /\ it <= Len(tests)
    /\ ~tests[it].is_enabled
    /\ results' = SkipTest(results, suite_label, tests[it].test_name, NullOpt)
    /\ trace' = Append(trace,
           RecordEvent("Skip", it, SkipMessage(suite_label, tests[it].test_name, NullOpt)))
    /\ cout' = cout \o <<SkipLine(tests[it].test_name, NullOpt),
                        "  Ending Test: " \o tests[it].test_name>>
    /\ it' = it + 1
    /\ UNCHANGED <<callVars, pc, actual, resultsVars, utilVars>>

\* Step 2a for a case that has is_enabled false: SkipTest and return from the
\* lambda.
TestSkip ==
    /\ pc = "test"
    /\ it <= Len(tests)
    /\ ~tests[it].is_enabled
    /\ results' = SkipTest(results, suite_label, tests[it].test_name, NullOpt)
    /\ trace' = Append(trace,
           RecordEvent("Skip", it, SkipMessage(suite_label, tests[it].test_name, NullOpt)))
    /\ cout' = Append(cout, SkipLine(tests[it].test_name, NullOpt))
    /\ it' = it + 1
    /\ UNCHANGED <<callVars, pc, actual, resultsVars, utilVars>>

\* Steps 2a and 2b for an enabled case: "Beginning Test" and Test Setup
TestSetup ==
    /\ pc = "test"
    /\ it <= Len(tests)
    /\ tests[it].is_enabled
    /\ cout' = Append(cout, "  Beginning Test: " \o tests[it].test_name)
    /\ InvokeIfPresent(tests[it].before_each, "before_each", it, "execute")
    /\ UNCHANGED <<callVars, it, results, actual, resultsVars, utilVars>>

\* Step 2c as it would be without the catch clauses: what the function under
\* test raises leaves ExecuteSuite.
TestExecuteWithoutCatch ==
    /\ pc = "execute"
    /\ LET test_data == tests[it]
           ran == function_to_test(test_data.input_params)
           called == HookEvent("function_to_test", it, test_data.input_params[1],
                               IF ran.raised THEN "raised" ELSE "returned")
       IN  /\ trace' = Append(trace, called)
           /\ actual' = IF ran.raised THEN actual ELSE ran.value
           /\ pc' = IF ran.raised THEN "propagated" ELSE "compare"
    /\ UNCHANGED <<callVars, it, results, cout, resultsVars, utilVars>>

\* Step 2c: TResult actual; try { actual = std::apply(function_to_test,
\* input_params); } catch ...
TestExecute ==
    /\ pc = "execute"
    /\ LET test_data == tests[it]
           qualified_test_label ==
               QualifiedTestLabel(suite_label, test_data.test_name)
           ran == function_to_test(test_data.input_params)
           called == HookEvent("function_to_test", it, test_data.input_params[1],
                               IF ran.raised THEN "raised" ELSE "returned")
           message == qualified_test_label \o " " \o CaughtMessage(ran.payload)
       IN  IF ran.raised
              THEN /\ results' = ErrorMsg(results, message)
                   /\ trace' = trace \o <<called, RecordEvent("Error", it, message)>>
                   /\ cout' = Append(cout, "    {fire}ERROR: "
                                           \o CaughtMessage(ran.payload))
                   /\ actual' \in UninitializedActual
              ELSE /\ results' = results
                   /\ trace' = Append(trace, called)
                   /\ cout' = cout
                   /\ actual' = ran.value
    /\ pc' = "compare"
    /\ UNCHANGED <<callVars, it, resultsVars, utilVars>>

\* Step 2d as it would be if a case whose function under test raised were
\* recorded as an error only, without a pass or a fail.
TestPassOrFailUnlessErrored ==
    /\ pc = "compare"
    /\ LET test_data == tests[it]
           qualified_test_label ==
               QualifiedTestLabel(suite_label, test_data.test_name)
           Compare_function == ResolveCompare(test_data, suite_Compare)
           verdict == ApplyCompare(Compare_function.fn,
                                   test_data.expected_output, actual)
           compared == Event("Compare", it, Compare_function.fn,
                             test_data.expected_output, actual, verdict,
                             Compare_function.source)
           message == qualified_test_label \o " "
                      \o FailureText(test_data.expected_output, actual)
           errored == \E k \in DOMAIN trace :
                          trace[k].call = "Error" /\ trace[k].test = it
       IN  CASE errored ->
                    /\ results' = results
                    /\ trace' = trace
                    /\ cout' = cout
                    /\ pc' = "teardown"
             [] ~errored /\ verdict = "true" ->
                    /\ results' = Pass(results)
                    /\ trace' = trace \o <<compared, RecordEvent("Pass", it, "")>>
                    /\ cout' = Append(cout, "    {check}PASSED")
                    /\ pc' = "teardown"
             [] ~errored /\ verdict = "false" ->
                    /\ results' = FailMsg(results, message)
                    /\ trace' = trace \o <<compared, RecordEvent("Fail", it, message)>>
                    /\ cout' = Append(cout, "    {cross}FAILED: "
                           \o FailureText(test_data.expected_output, actual))
                    /\ pc' = "teardown"
             [] ~errored /\ verdict = "raised" ->
                    /\ results' = results
                    /\ trace' = Append(trace, compared)
                    /\ cout' = cout
                    /\ pc' = "propagated"
    /\ UNCHANGED <<callVars, it, actual, resultsVars, utilVars>>

\* Step 2d as it would be if the comparison were inside the try block: what
\* the comparator raises is recorded as an error and the case goes on to its
\* teardown.
TestPassOrFailInsideTry ==
    /\ pc = "compare"
    /\ LET test_data == tests[it]
           qualified_test_label ==
               QualifiedTestLabel(suite_label, test_data.test_name)
           Compare_function == ResolveCompare(test_data, suite_Compare)
           verdict == ApplyCompare(Compare_function.fn,
                                   test_data.expected_output, actual)
           compared == Event("Compare", it, Compare_function.fn,
                             test_data.expected_output, actual, verdict,
                             Compare_function.source)
           message == qualified_test_label \o " "
                      \o FailureText(test_data.expected_output, actual)
           caught == qualified_test_label
                     \o " Caught something that is neither an std::exception "
                     \o "nor an std::string."
       IN  CASE verdict = "true" ->
                    /\ results' = Pass(results)
                    /\ trace' = trace \o <<compared, RecordEvent("Pass", it, "")>>
                    /\ cout' = Append(cout, "    {check}PASSED")
             [] verdict = "false" ->
                    /\ results' = FailMsg(results, message)
                    /\ trace' = trace \o <<compared, RecordEvent("Fail", it, message)>>
                    /\ cout' = Append(cout, "    {cross}FAILED: "
                           \o FailureText(test_data.expected_output, actual))
             [] verdict = "raised" ->
                    /\ results' = ErrorMsg(results, caught)
                    /\ trace' = trace \o <<compared, RecordEvent("Error", it, caught)>>
                    /\ cout' = cout
    /\ pc' = "teardown"
    /\ UNCHANGED <<callVars, it, actual, resultsVars, utilVars>>

\* Step 2d: Pass or fail.
TestPassOrFail ==
    /\ pc = "compare"
    /\ LET test_data == tests[it]
           qualified_test_label ==
               QualifiedTestLabel(suite_label, test_data.test_name)
           Compare_function == ResolveCompare(test_data, suite_Compare)
           verdict == ApplyCompare(Compare_function.fn,
                                   test_data.expected_output, actual)
           compared == Event("Compare", it, Compare_function.fn,
                             test_data.expected_output, actual, verdict,
                             Compare_function.source)
           message == qualified_test_label \o " "
                      \o FailureText(test_data.expected_output, actual)
       IN  CASE verdict = "true" ->
                    /\ results' = Pass(results)
                    /\ trace' = trace \o <<compared, RecordEvent("Pass", it, "")>>
                    /\ cout' = Append(cout, "    {check}PASSED")
                    /\ pc' = "teardown"
             [] verdict = "false" ->
                    /\ results' = FailMsg(results, message)
                    /\ trace' = trace \o <<compared, RecordEvent("Fail", it, message)>>
                    /\ cout' = Append(cout, "    {cross}FAILED: "
                           \o FailureText(test_data.expected_output, actual))
                    /\ pc' = "teardown"
             [] verdict = "raised" ->
                    /\ results' = results
                    /\ trace' = Append(trace, compared)
                    /\ cout' = cout
                    /\ pc' = "propagated"
    /\ UNCHANGED <<callVars, it, actual, resultsVars, utilVars>>

\* Test Teardown as it would be if a case that failed were run again.
TestTeardownRetryingFailures ==
    /\ pc = "teardown"
    /\ InvokeIfPresent(tests[it].after_each, "after_each", it, "test")
    /\ IF pc' = "propagated"
          THEN /\ cout' = cout
               /\ it' = it
          ELSE /\ cout' = Append(cout, "  Ending Test: " \o tests[it].test_name)
               /\ it' = IF trace[Len(trace)].call = "Fail" THEN it ELSE it + 1
    /\ actual' = FALSE
    /\ UNCHANGED <<callVars, results, resultsVars, utilVars>>

\* Test Teardown as it would be if it called the case's before_each hook
\* where after_each belongs.
TestTeardownCallingBeforeEach ==
    /\ pc = "teardown"
    /\ InvokeIfPresent(tests[it].before_each, "before_each", it, "test")
    /\ IF pc' = "propagated"
          THEN /\ cout' = cout
               /\ it' = it
          ELSE /\ cout' = Append(cout, "  Ending Test: " \o tests[it].test_name)
               /\ it' = it + 1
    /\ actual' = FALSE
    /\ UNCHANGED <<callVars, results, resultsVars, utilVars>>

\* Step 2e: Test Teardown and "Ending Test"; for_each moves to the next case.
TestTeardown ==
    /\ pc = "teardown"
    /\ InvokeIfPresent(tests[it].after_each, "after_each", it, "test")
    /\ IF pc' = "propagated"
          THEN /\ cout' = cout
               /\ it' = it
          ELSE /\ cout' = Append(cout, "  Ending Test: " \o tests[it].test_name)
               /\ it' = it + 1
    /\ actual' = FALSE
    /\ UNCHANGED <<callVars, results, resultsVars, utilVars>>

\* Suite Teardown as it would be if the loop stopped one case early.
SuiteTeardownOneCaseEarly ==
    /\ pc = "test"
    /\ it >= Len(tests)
    /\ InvokeIfPresent(after_all, "after_all", 0, "returned")
    /\ cout' = IF pc' = "propagated" THEN cout
               ELSE Append(cout, "Ending Suite: " \o suite_label)
    /\ UNCHANGED <<callVars, it, results, actual, resultsVars, utilVars>>

\* Step 3: Suite Teardown, "Ending Suite" and return results.
SuiteTeardown ==
    /\ pc = "test"
    /\ it > Len(tests)
    /\ InvokeIfPresent(after_all, "after_all", 0, "returned")
    /\ cout' = IF pc' = "propagated" THEN cout
               ELSE Append(cout, "Ending Suite: " \o suite_label)
    /\ UNCHANGED <<callVars, it, results, actual, resultsVars, utilVars>>

\* The cases the suites are built from.
TestData ==
    {MakeTest("A", TRUE, <<"true">>, NullOpt, NullOpt, NullOpt, TRUE),
     MakeTest("B", TRUE, <<"false">>, NullOpt, "before_each", "after_each", TRUE),
     MakeTest("C", FALSE, <<"true">>, "always_true", "before_each", NullOpt, TRUE),
     MakeTest("D", TRUE, <<"true">>, "not_equal", NullOpt, "after_each", TRUE),
     MakeTest("E", TRUE, <<"exception">>, NullOpt, "before_each", "after_each", TRUE),
     MakeTest("F", FALSE, <<"string">>, NullOpt, NullOpt, NullOpt, TRUE),
     MakeTest("G", TRUE, <<"cstring">>, "equal", "before_each", "after_each", TRUE),
     MakeTest("H", FALSE, <<"int">>, "always_true", NullOpt, "after_each", TRUE),
     MakeTest("I", TRUE, <<"derived">>, NullOpt, "before_each", NullOpt, TRUE),
     MakeTest("J", TRUE, <<"true">>, "throws", "before_each", "after_each", TRUE),
     MakeTest("A", TRUE, <<"true">>, "equal", "before_each", "after_each", FALSE),
     MakeTest("K", FALSE, <<"exception">>, NullOpt, NullOpt, NullOpt, FALSE)}

\* initializer_lists of at most n cases
RECURSIVE TestLists(_)
TestLists(n) ==
    IF n = 0 THEN {<<>>}
    ELSE TestLists(n - 1)
         \cup {Append(l, t) : l \in {k \in TestLists(n - 1) : Len(k) = n - 1},
                              t \in TestData}

Init ==
    /\ test_suite = NoTuple
    /\ suite_label = "My Suite"
    /\ tests \in TestLists(MaxTests)
    /\ suite_Compare \in {NullOpt, "equal", "always_true"}
    /\ before_all \in {NullOpt, "before_all"}
    /\ after_all \in {NullOpt, "after_all"}
    /\ is_enabled \in BOOLEAN
    /\ pc = "start"
    /\ it = 0
    /\ results = EmptyResults
    /\ actual = FALSE
    /\ trace = <<>>
    /\ cout = <<>>
    /\ obj = [i \in Objects |-> EmptyResults]
    /\ last = NoCall
    /\ budget = 0
    /\ NoUtil

Next ==
    \/ SuiteDisabled
    \/ SuiteEmpty
    \/ SuiteSetup
    \/ TestSkip
    \/ TestSetup
    \/ TestExecute
    \/ TestPassOrFail
    \/ TestTeardown
    \/ SuiteTeardown

Spec == Init /\ [][Next]_vars

(***************************************************************************)
(* ExecuteSuite(test_suite): the overload that takes a TestSuite tuple,    *)
(* called in the expression that builds the tuple,                         *)
(* ExecuteSuite(MakeTestSuite(...)), so that the initializer_list held in  *)
(* the tuple still has its array.                                          *)
(***************************************************************************)

\* sizeof(test_suite) in bytes (x86-64, libstdc++)
SizeofTestSuite == 208

\* MakeTestSuite(suite_name, function_to_test, test_data, compare,
\*               before_each, after_each, is_enabled)
MakeTestSuite(suite_name, function, test_data, compare, before_each, after_each, enabled) ==
    <<suite_name, function, test_data, compare, before_each, after_each,
      enabled>>

\* std::get<n>(tuple), n counted from 0
Get(n, tuple) == tuple[n + 1]

\* The TestSuite tuples the overload is called with.
TestSuites ==
    {MakeTestSuite("My Suite", "function_to_test", test_data, compare,
                   before_each, after_each, enabled) :
        test_data \in TestLists(MaxTests),
        compare \in {NullOpt, "equal", "always_true"},
        before_each \in {NullOpt, "suite before_each"},
        after_each \in {NullOpt, "suite after_each"},
        enabled \in BOOLEAN}

\* The overload as it would be if it handed the sixth element on as
\* before_all and the fifth as after_all.
ExecuteSuiteTupleHooksSwapped ==
    /\ pc = "call"
    /\ suite_label' = Get(0, test_suite)
    /\ tests' = Get(2, test_suite)
    /\ suite_Compare' = IF SizeofTestSuite > 3 THEN Get(3, test_suite)
                                               ELSE NullOpt
    /\ before_all' = IF SizeofTestSuite > 4 THEN Get(5, test_suite)
                                            ELSE NullOpt
    /\ after_all' = IF SizeofTestSuite > 5 THEN Get(4, test_suite)
                                           ELSE NullOpt
    /\ is_enabled' = IF SizeofTestSuite > 6 THEN Get(6, test_suite) ELSE TRUE
    /\ pc' = "start"
    /\ UNCHANGED <<test_suite, it, results, actual, trace, cout, resultsVars,
                   utilVars>>

\* ExecuteSuite(const TestSuite&): the locals it unpacks the tuple into are
\* the arguments of the seven-parameter ExecuteSuite it then calls.
ExecuteSuiteTuple ==
    /\ pc = "call"
    /\ suite_label' = Get(0, test_suite)
    /\ tests' = Get(2, test_suite)
    /\ suite_Compare' = IF SizeofTestSuite > 3 THEN Get(3, test_suite)
                                               ELSE NullOpt
    /\ before_all' = IF SizeofTestSuite > 4 THEN Get(4, test_suite)
                                            ELSE NullOpt
    /\ after_all' = IF SizeofTestSuite > 5 THEN Get(5, test_suite)
                                           ELSE NullOpt
    /\ is_enabled' = IF SizeofTestSuite > 6 THEN Get(6, test_suite) ELSE TRUE
    /\ pc' = "start"
    /\ UNCHANGED <<test_suite, it, results, actual, trace, cout, resultsVars,
                   utilVars>>

InitTuple ==
    /\ test_suite \in TestSuites
    /\ suite_label = ""
    /\ tests = <<>>
    /\ suite_Compare = NullOpt
    /\ before_all = NullOpt
    /\ after_all = NullOpt
    /\ is_enabled = FALSE
    /\ pc = "call"
    /\ it = 0
    /\ results = EmptyResults
    /\ actual = FALSE
    /\ trace = <<>>
    /\ cout = <<>>
    /\ obj = [i \in Objects |-> EmptyResults]
    /\ last = NoCall
    /\ budget = 0
    /\ NoUtil

NextTuple ==
    \/ ExecuteSuiteTuple
    \/ Next

SpecTuple == InitTuple /\ [][NextTuple]_vars

(***************************************************************************)
(* ExecuteSuite on suites whose comparator raises, the suite's or a        *)
(* case's.                                                                 *)
(***************************************************************************)

\* The cases of those suites: with no comparator of their own (passing,
\* raising, disabled), with one that returns and with one that raises.
CompareCases == {t \in TestData : t.test_name \in {"A", "D", "E", "J", "K"}}

InitCompare ==
    /\ test_suite = NoTuple
    /\ suite_label = "My Suite"
    /\ tests \in {l \in TestLists(MaxTests) :
                     \A n \in DOMAIN l : l[n] \in CompareCases}
    /\ suite_Compare \in {NullOpt, "throws"}
    /\ before_all \in {NullOpt, "before_all"}
    /\ after_all \in {NullOpt, "after_all"}
    /\ is_enabled \in BOOLEAN
    /\ pc = "start"
    /\ it = 0
    /\ results = EmptyResults
    /\ actual = FALSE
    /\ trace = <<>>
    /\ cout = <<>>
    /\ obj = [i \in Objects |-> EmptyResults]
    /\ last = NoCall
    /\ budget = 0
    /\ NoUtil

SpecCompare == InitCompare /\ [][Next]_vars

(***************************************************************************)
(* SpecCases: ExecuteSuite called with suites made of a few kinds of case,  *)
(* for what is claimed of the accumulator and of the calls case by case.    *)
(***************************************************************************)

\* The kinds of case: one that passes, one that fails, one whose function
\* raises a std::exception, one whose function raises an int under a
\* comparator that always accepts, one whose comparator raises, and two
\* disabled ones.
CaseKinds == {t \in TestData : t.test_name \in {"A", "B", "E", "H", "J", "K"}}

InitCases ==
    /\ Init
    /\ \A n \in DOMAIN tests : tests[n] \in CaseKinds

SpecCases == InitCases /\ [][Next]_vars

(***************************************************************************)
(* ExecuteSuite as a call that keeps running: it is straight-line code and *)
(* one for_each over a finite list on the caller's thread, so whenever a   *)
(* next statement exists it is executed.                                   *)
(***************************************************************************)

\* The cases of the suites that are run to their end: one that passes, one
\* that fails, one whose function raises, one whose comparator raises and
\* two disabled ones.
LiveCases == {t \in TestData : t.test_name \in {"A", "B", "E", "J", "K"}}

InitLive ==
    /\ Init
    /\ \A n \in DOMAIN tests : tests[n] \in LiveCases

SpecLive == InitLive /\ [][Next]_vars /\ WF_vars(Next)

(***************************************************************************)
(* SpecCoalesce: a caller combines two optional hooks with Coalesce and     *)
(* calls the result.  SpecIntercept: a caller writes to std::cout and runs  *)
(* functions under InterceptCout.                                           *)
(***************************************************************************)

\* How many calls a caller of Coalesce's result or of InterceptCout makes.
MaxCalls == 3

\* The hooks a caller combines, named by the line each appends to lines.
Hooks == {"Line 1", "Line 2"}

\* The texts written to std::cout.
Texts == {"a", "b"}

\* The functions run under InterceptCout: what each writes to std::cout, and
\* whether it then raises instead of returning.
Functions ==
    [writes : {<<>>} \cup {<<t>> : t \in Texts}
                     \cup {<<t, u>> : t \in Texts, u \in Texts},
     raises : BOOLEAN]

\* No TestResults operation is modelled.
NoResults ==
    /\ obj = [i \in Objects |-> EmptyResults]
    /\ last = NoCall
    /\ budget = 0

\* MaybeTestConfigureFunction actual = Coalesce(fn1, fn2);
CallCoalesce ==
    /\ coalesced = NotCalled
    /\ coalesced' = Coalesce(fn1, fn2)
    /\ UNCHANGED <<fn1, fn2, lines, invoked, rdbuf, terminal, capture,
                   process, calls, printVars, resultsVars, suiteVars>>

\* actual.value()();
CallCoalesced ==
    /\ coalesced \notin {NotCalled, NullOpt}
    /\ process = "running"
    /\ calls > 0
    /\ \E call \in Invoke(coalesced, fn1, fn2) :
           /\ invoked' = call
           /\ lines' = lines \o call.calls
           /\ process' = IF call.outcome = "crashed" THEN "crashed" ELSE process
    /\ calls' = calls - 1
    /\ UNCHANGED <<fn1, fn2, coalesced, rdbuf, terminal, capture,
                   printVars, resultsVars, suiteVars>>

InitCoalesce ==
    /\ fn1 \in Hooks \cup {NullOpt}
    /\ fn2 \in Hooks \cup {NullOpt}
    /\ coalesced = NotCalled
    /\ lines = <<>>
    /\ invoked = NoInvocation
    /\ NoIntercept
    /\ NoPrint
    /\ process = "running"
    /\ calls = MaxCalls
    /\ NoResults
    /\ NoSuite

NextCoalesce ==
    \/ CallCoalesce
    \/ CallCoalesced

SpecCoalesce == InitCoalesce /\ [][NextCoalesce]_vars

\* string output = InterceptCout(function_to_execute);
CallInterceptCout(function_to_execute) ==
    /\ process = "running"
    /\ calls > 0
    /\ capture' = InterceptCout(function_to_execute, rdbuf)
    /\ rdbuf' = capture'.at_exit
    /\ calls' = calls - 1
    /\ UNCHANGED <<terminal, process, fn1, fn2, coalesced, lines, invoked,
                   printVars, resultsVars, suiteVars>>

\* std::cout << text; in the caller.  Through the pointer to a destroyed
\* buffer the text goes nowhere or the program dies.
CoutWrite(text) ==
    /\ process = "running"
    /\ calls > 0
    /\ IF rdbuf = OriginalBuffer
          THEN /\ terminal' = Append(terminal, text)
               /\ process' = process
          ELSE /\ terminal' = terminal
               /\ process' \in {"running", "crashed"}
    /\ calls' = calls - 1
    /\ UNCHANGED <<rdbuf, capture, fn1, fn2, coalesced, lines, invoked,
                   printVars, resultsVars, suiteVars>>

InitIntercept ==
    /\ NoIntercept
    /\ NoCoalesce
    /\ NoPrint
    /\ process = "running"
    /\ calls = MaxCalls
    /\ NoResults
    /\ NoSuite

NextIntercept ==
    \/ \E function_to_execute \in Functions : CallInterceptCout(function_to_execute)
    \/ \E text \in Texts : CoutWrite(text)

SpecIntercept == InitIntercept /\ [][NextIntercept]_vars

(***************************************************************************)
(* PrintResults(os, results)                                               *)
(***************************************************************************)

\* How many times a caller prints.
MaxPrints == 2

\* One decimal digit as operator<< writes it.
Digit(d) ==
    CASE d = 0 -> "0" [] d = 1 -> "1" [] d = 2 -> "2" [] d = 3 -> "3"
      [] d = 4 -> "4" [] d = 5 -> "5" [] d = 6 -> "6" [] d = 7 -> "7"
      [] d = 8 -> "8" [] d = 9 -> "9"

\* Quotient and remainder of a uint32_t by ten, by long division over the
\* two limbs.
DivMod10(n) ==
    LET carry == (n[1] % 10) * Limb + n[2]
    IN  [quotient |-> <<n[1] \div 10, carry \div 10>>,
         remainder |-> carry % 10]

RECURSIVE Decimal(_)
\* os << n for a uint32_t n: its decimal digits, most significant first, no
\* leading zero.
Decimal(n) ==
    LET d == DivMod10(n)
    IN  IF d.quotient = U32(0)
            THEN Digit(d.remainder)
            ELSE Decimal(d.quotient) \o Digit(d.remainder)

\* if (messages.size() > 0) { os << header << endl; for_each(... os << prefix
\* << message << endl ...); }
Block(header, prefix, messages) ==
    IF Len(messages) > 0
        THEN <<header>> \o [n \in 1..Len(messages) |-> prefix \o messages[n]]
        ELSE <<>>

\* The five lines PrintResults always writes.
Summary(r) ==
    <<"Total tests: " \o Decimal(Total(r)),
      "Passed:      " \o Decimal(Passed(r)) \o " {check}",
      "Failed:      " \o Decimal(Failed(r)) \o " {cross}",
      "Skipped:     " \o Decimal(Skipped(r)) \o " {construction}",
      "Errors:      " \o Decimal(Errors(r)) \o " {fire}">>

\* A block written when its counter is not zero, whatever its messages.
BlockByCounter(header, prefix, counter, messages) ==
    IF counter # U32(0)
        THEN <<header>> \o [n \in 1..Len(messages) |-> prefix \o messages[n]]
        ELSE <<>>

\* PrintResults as it would be if a block were written when its counter is
\* not zero.
PrintResultsByCounter(r) ==
    BlockByCounter("Skipped:", "{construction}Skipped: ", Skipped(r),
                   SkipMessages(r))
    \o BlockByCounter("Failures:", "{cross}FAILED: ", Failed(r),
                      FailureMessages(r))
    \o BlockByCounter("Errors:", "{fire}ERROR: ", Errors(r), ErrorMessages(r))
    \o Summary(r)

\* The lines PrintResults(os, results) writes to os for the accumulator r,
\* each ended by endl.
PrintResults(r) ==
    Block("Skipped:", "{construction}Skipped: ", SkipMessages(r))
    \o Block("Failures:", "{cross}FAILED: ", FailureMessages(r))
    \o Block("Errors:", "{fire}ERROR: ", ErrorMessages(r))
    \o Summary(r)

\* The accumulators a caller prints: counters that are zero, small or the
\* largest uint32_t, each message sequence empty or not whatever its counter.
Printable ==
    {TestResults(errors, failed, U32(5), U32(4), total,
                 error_messages, failure_messages, skip_messages) :
        errors \in {U32(0), U32(2)},
        failed \in {U32(0), U32(3)},
        total \in {U32(12), UINT32_MAX},
        error_messages \in {<<>>, <<"x">>},
        failure_messages \in {<<>>, <<"x">>, <<"x", "y">>},
        skip_messages \in {<<>>, <<"y">>}}

\* The accumulator of TEST(PrintResults, ShouldDoTheThing).
ShouldDoTheThing ==
    TestResults(U32(2), U32(3), U32(5), U32(4), U32(12),
                <<"error with a message">>, <<"fail with a message">>,
                <<"skip with a message">>)

\* PrintResults(os, obj[i]);
CallPrintResults(i) ==
    /\ calls > 0
    /\ os' = os \o PrintResults(obj[i])
    /\ printed' = Append(printed, [results |-> obj[i], at |-> Len(os)])
    /\ calls' = calls - 1
    /\ UNCHANGED <<fn1, fn2, coalesced, lines, invoked, rdbuf, terminal,
                   capture, process, resultsVars, suiteVars>>

InitPrint ==
    /\ obj \in {o \in [Objects -> Printable \cup {EmptyResults, ShouldDoTheThing}] :
                   o[2] \in {EmptyResults, ShouldDoTheThing}}
    /\ last = NoCall
    /\ budget = 0
    /\ NoSuite
    /\ NoCoalesce
    /\ NoIntercept
    /\ NoPrint
    /\ process = "running"
    /\ calls = MaxPrints

NextPrint == \E i \in Objects : CallPrintResults(i)

SpecPrint == InitPrint /\ [][NextPrint]_vars

(***************************************************************************)
(* Properties.                                                             *)
(***************************************************************************)

\* out is a + b computed in uint32_t: the sum of a and b modulo 2^32, stated
\* half by half with the two carries.
IsSumU32(out, a, b) ==
    \E carry \in {0, 1}, wrap \in {0, 1} :
        /\ a[2] + b[2] = out[2] + carry * Limb
        /\ a[1] + b[1] + carry = out[1] + wrap * Limb

\* The sum of a and b does not fit 32 bits.
Wraps(a, b) == a[1] + b[1] + ((a[2] + b[2]) \div Limb) >= Limb

\* Total() == Failed() + Passed() + Skipped(), the right-hand side being the
\* uint32_t expression it is in C++
TotalIsSum(r) ==
    LET low == Failed(r)[2] + Passed(r)[2] + Skipped(r)[2]
        high == Failed(r)[1] + Passed(r)[1] + Skipped(r)[1] + (low \div Limb)
    IN  Total(r) = <<high % Limb, low % Limb>>

\* C1: every accumulator built from an empty TestResults by Error, Fail, Pass
\* and Skip calls (with or without a message) and by operator+ and operator+=
\* on accumulators built that way has Total() == Failed() + Passed() +
\* Skipped().
C1_TotalIsFailedPlusPassedPlusSkipped ==
    /\ \A i \in Objects : TotalIsSum(obj[i])
    /\ TotalIsSum(last.out)

\* C1 witness: a combination of two accumulators built by Record calls, one
\* holding a failed test and the other a passed one.
C1_Witness ==
    /\ last.op \in {"Plus", "PlusAssign"}
    /\ ~last.aliased
    /\ Failed(last.this) = U32(1)
    /\ Passed(last.other) = U32(1)
    /\ Failed(last.out) = U32(1)
    /\ Passed(last.out) = U32(1)
    /\ Total(last.out) = U32(2)

\* C2: A + B has each of its five counters equal to the sum of the
\* corresponding counters of A and B (a uint32_t sum, as the counters are),
\* and each of its three message sequences equal to A's followed by B's.
C2_PlusSumsCountersAndConcatenatesMessages ==
    last.op = "Plus" =>
        /\ IsSumU32(Errors(last.out), Errors(last.this), Errors(last.other))
        /\ IsSumU32(Failed(last.out), Failed(last.this), Failed(last.other))
        /\ IsSumU32(Passed(last.out), Passed(last.this), Passed(last.other))
        /\ IsSumU32(Skipped(last.out), Skipped(last.this), Skipped(last.other))
        /\ IsSumU32(Total(last.out), Total(last.this), Total(last.other))
        /\ ErrorMessages(last.out)
              = ErrorMessages(last.this) \o ErrorMessages(last.other)
        /\ FailureMessages(last.out)
              = FailureMessages(last.this) \o FailureMessages(last.other)
        /\ SkipMessages(last.out)
              = SkipMessages(last.this) \o SkipMessages(last.other)

\* C2 witness: A + B for two distinct accumulators that both hold messages of
\* every kind, where one counter's sum wraps and another's does not.
C2_Witness ==
    /\ last.op = "Plus"
    /\ ~last.aliased
    /\ ErrorMessages(last.this) # <<>>
    /\ ErrorMessages(last.other) # <<>>
    /\ ErrorMessages(last.this) # ErrorMessages(last.other)
    /\ FailureMessages(last.out)
          = <<"f1", "g1", "f2", "g2">>
    /\ Wraps(Errors(last.this), Errors(last.other))
    /\ ~Wraps(Failed(last.this), Failed(last.other))
    /\ Passed(last.out) = U32(6)

\* The positions in trace of the calls of one callee made for case n.
Events(call, n) ==
    {k \in DOMAIN trace : trace[k].call = call /\ trace[k].test = n}

Count(call, n) == Cardinality(Events(call, n))

\* The positions in trace of all the calls of one callee.
Calls(call) == {k \in DOMAIN trace : trace[k].call = call}

\* The callables a user hands to ExecuteSuite.
UserCalls == {"before_all", "before_each", "function_to_test", "Compare",
              "after_each", "after_all"}

\* The function under test raised in case n.
Raised(n) ==
    \E k \in Events("function_to_test", n) : trace[k].outcome = "raised"

\* Case n has been gone through completely.
Processed(n) ==
    IF tests[n].is_enabled
        THEN /\ Count("function_to_test", n) = 1
             /\ Count("Compare", n) = 1
             /\ Count("Pass", n) + Count("Fail", n) = 1
             /\ tests[n].before_each # NullOpt => Count("before_each", n) = 1
             /\ tests[n].after_each # NullOpt => Count("after_each", n) = 1
             /\ Count("Skip", n) = 0
        ELSE /\ Count("Skip", n) = 1
             /\ \A call \in UserCalls \cup {"Error", "Pass", "Fail"} :
                    Count(call, n) = 0

\* The messages of the calls of one Record operation, in the order made.
Recorded(call) ==
    LET made == SelectSeq(trace, LAMBDA e : e.call = call)
    IN  [k \in 1..Len(made) |-> made[k].message]

\* TResult(): the value a value-initialized bool has
DefaultValue == FALSE

\* C3: when the function under test raises in an enabled case, exactly one
\* error is recorded for that case, the comparator is still evaluated on
\* (expected, default-valued actual), exactly one pass or fail is recorded for
\* the case, its after_each (if present) still runs, and the remaining cases
\* and after_all still execute.  Stated of the runs that return, in which no
\* hook and no comparator raised.
C3_RaisingCaseComparesDefaultActual ==
    (pc = "returned" /\ is_enabled) =>
        \A n \in 1..Len(tests) :
            (tests[n].is_enabled /\ Raised(n)) =>
                /\ Count("Error", n) = 1
                /\ Count("Compare", n) = 1
                /\ \A k \in Events("Compare", n) :
                       /\ trace[k].expected = tests[n].expected_output
                       /\ trace[k].actual = DefaultValue
                /\ Count("Pass", n) + Count("Fail", n) = 1
                /\ tests[n].after_each # NullOpt => Count("after_each", n) = 1
                /\ \A m \in (n + 1)..Len(tests) : Processed(m)
                /\ after_all # NullOpt => Count("after_all", 0) = 1

\* C4: for every enabled case exactly one comparator is invoked, once: the
\* case's override if present, otherwise the suite's comparator if present,
\* otherwise structural equality; what it returns decides between Pass and
\* Fail, so a present override decides even against the suite's comparator,
\* which is then not invoked for that case.
C4_ComparatorPriority ==
    is_enabled =>
        /\ \A k \in Calls("Compare") :
               LET n == trace[k].test
                   t == tests[n]
               IN  /\ t.is_enabled
                   /\ IF t.test_compare_function # NullOpt
                         THEN /\ trace[k].fn = t.test_compare_function
                              /\ trace[k].message = "test"
                      ELSE IF suite_Compare # NullOpt
                         THEN /\ trace[k].fn = suite_Compare
                              /\ trace[k].message = "suite"
                      ELSE /\ trace[k].fn = StructuralEquality
                           /\ trace[k].message = "default"
                   /\ trace[k].expected = t.expected_output
                   /\ trace[k].outcome
                         = ApplyCompare(trace[k].fn, trace[k].expected, trace[k].actual)
                   /\ trace[k].outcome = "true" =>
                         /\ k < Len(trace)
                         /\ trace[k + 1].call = "Pass"
                         /\ trace[k + 1].test = n
                   /\ trace[k].outcome = "false" =>
                         /\ k < Len(trace)
                         /\ trace[k + 1].call = "Fail"
                         /\ trace[k + 1].test = n
        /\ \A n \in 1..Len(tests) :
               /\ Count("Compare", n) <= 1
               /\ n < it => Count("Compare", n) = (IF tests[n].is_enabled THEN 1 ELSE 0)

\* C4 witness: a run that returned in which a case's own comparator gave the
\* verdict and the suite's comparator would have given the opposite one.
C4_Witness ==
    /\ pc = "returned"
    /\ suite_Compare # NullOpt
    /\ \E k \in Calls("Compare") :
           /\ trace[k].message = "test"
           /\ trace[k].outcome
                 # ApplyCompare(suite_Compare, trace[k].expected, trace[k].actual)

\* C5: a disabled suite with N cases calls no hook, no comparator and not the
\* function under test, and returns skipped = total = N, passed = failed =
\* errors = 0, with the skip messages "<suite>::<case> because the suite is
\* disabled." in case order, whatever the cases' own flags.
C5_DisabledSuiteSkipsEveryCase ==
    (pc = "returned" /\ ~is_enabled) =>
        /\ \A k \in DOMAIN trace : trace[k].call \notin UserCalls
        /\ Skipped(results) = U32(Len(tests))
        /\ Total(results) = U32(Len(tests))
        /\ Passed(results) = U32(0)
        /\ Failed(results) = U32(0)
        /\ Errors(results) = U32(0)
        /\ Len(SkipMessages(results)) = Len(tests)
        /\ \A n \in 1..Len(tests) :
               SkipMessages(results)[n]
                  = suite_label \o "::" \o tests[n].test_name
                    \o " because the suite is disabled."
        /\ FailureMessages(results) = <<>>
        /\ ErrorMessages(results) = <<>>

\* C5 witness: a disabled suite returned for two cases, one enabled and one
\* disabled, with every suite hook, a suite comparator and case hooks present.
C5_Witness ==
    /\ pc = "returned"
    /\ ~is_enabled
    /\ Len(tests) = 2
    /\ tests[1].is_enabled
    /\ ~tests[2].is_enabled
    /\ tests[1].before_each # NullOpt
    /\ tests[1].after_each # NullOpt
    /\ tests[2].test_compare_function # NullOpt
    /\ before_all # NullOpt
    /\ after_all # NullOpt
    /\ suite_Compare # NullOpt
    /\ Skipped(results) = U32(2)

\* C6: in an enabled suite a case with is_enabled false records exactly one
\* skip whose message is "<suite>::<case>" with no reason; its before_each,
\* after_each, comparator and the function under test are not invoked, no
\* pass, fail or error is recorded for it, and the run goes on with the next
\* case.
C6_DisabledCaseIsSkipped ==
    is_enabled =>
        /\ \A n \in 1..Len(tests) :
               ~tests[n].is_enabled =>
                   /\ \A k \in DOMAIN trace :
                          trace[k].test = n =>
                              /\ trace[k].call = "Skip"
                              /\ trace[k].message
                                    = suite_label \o "::" \o tests[n].test_name
                   /\ Count("Skip", n) <= 1
                   /\ n < it => Count("Skip", n) = 1
                   /\ pc = "returned" => \A m \in (n + 1)..Len(tests) : Processed(m)
        /\ SkipMessages(results) = Recorded("Skip")
        /\ Skipped(results) = U32(Len(Recorded("Skip")))

\* C6 witness: a returned run whose first case is disabled though it has
\* hooks and a comparator, and whose second case was executed.
C6_Witness ==
    /\ pc = "returned"
    /\ is_enabled
    /\ Len(tests) = 2
    /\ ~tests[1].is_enabled
    /\ tests[1].before_each # NullOpt
    /\ tests[1].after_each # NullOpt
    /\ tests[1].test_compare_function # NullOpt
    /\ Count("Skip", 1) = 1
    /\ Count("function_to_test", 2) = 1
    /\ SkipMessages(results) = <<"My Suite::A">>

C9_HookFailurePropagates ==
    \A k \in DOMAIN trace :
        (/\ trace[k].call \in {"before_all", "before_each", "after_each"}
         /\ trace[k].outcome = "raised") =>
            /\ k = Len(trace)
            /\ pc = "propagated"

\* C9 witness: the before_each of the first of two enabled cases raised in a
\* suite that has an after_all.
C9_Witness ==
    /\ pc = "propagated"
    /\ Len(tests) = 2
    /\ tests[2].is_enabled
    /\ after_all # NullOpt
    /\ trace[Len(trace)].call = "before_each"
    /\ trace[Len(trace)].test = 1
    /\ trace[Len(trace)].outcome = "raised"

\* The text the handlers are documented to produce for a thrown object.
CategoryText(payload) ==
    IF "std::exception" \in payload.matches
        THEN "Caught exception \"" \o payload.text \o "\"."
    ELSE IF "std::string" \in payload.matches
        THEN "Caught string \"" \o payload.text \o "\"."
    ELSE IF "const char*" \in payload.matches
        THEN "Caught c-string \"" \o payload.text \o "\"."
    ELSE "Caught something that is neither an std::exception nor an std::string."

\* C10: a failure raised by the function under test produces exactly one
\* error record, and no fail record of its own, whose message is the
\* qualified label, a space and the text of the first matching category:
\* std::exception, std::string, const char*, anything else.
C10_FailureClassification ==
    /\ \A k \in Calls("function_to_test") :
           trace[k].outcome = "raised" =>
               LET n == trace[k].test
               IN  /\ k < Len(trace)
                   /\ trace[k + 1].call = "Error"
                   /\ trace[k + 1].test = n
                   /\ trace[k + 1].message
                         = suite_label \o "::" \o tests[n].test_name \o " "
                           \o CategoryText(Payloads[tests[n].input_params[1]])
                   /\ Count("Error", n) = 1
                   /\ k + 2 <= Len(trace) => trace[k + 2].call = "Compare"
    /\ \A k \in Calls("Error") :
           /\ k > 1
           /\ trace[k - 1].call = "function_to_test"
           /\ trace[k - 1].outcome = "raised"
    /\ ErrorMessages(results) = Recorded("Error")
    /\ Errors(results) = U32(Len(Recorded("Error")))

\* C10 witness: a returned run whose function under test threw an object that
\* is both a std::exception and a std::string.
C10_Witness ==
    /\ pc = "returned"
    /\ Len(tests) = 1
    /\ tests[1].input_params = <<"derived">>
    /\ ErrorMessages(results) = <<"My Suite::I Caught exception \"both\".">>
    /\ FailureMessages(results) = <<>>

\* C11: in one run of ExecuteSuite the function under test is invoked exactly
\* once for each enabled case of an enabled suite, in case order, and not at
\* all for a disabled case (or any case of a disabled suite); no case is run
\* again, whether it errored or failed.
C11_FunctionUnderTestOncePerEnabledCase ==
    /\ \A n \in 1..Len(tests) :
           /\ Count("function_to_test", n) <= 1
           /\ (~is_enabled \/ ~tests[n].is_enabled) =>
                  Count("function_to_test", n) = 0
           /\ (is_enabled /\ tests[n].is_enabled /\ (n < it \/ pc = "returned")) =>
                  Count("function_to_test", n) = 1
    /\ \A k \in Calls("function_to_test") : trace[k].test \in 1..Len(tests)
    /\ \A j \in Calls("function_to_test"), k \in Calls("function_to_test") :
           j < k => trace[j].test < trace[k].test

\* C11 witness: a returned run of two enabled cases, the first of which
\* errored and failed, with the function under test called once for each.
C11_Witness ==
    /\ pc = "returned"
    /\ is_enabled
    /\ Len(tests) = 2
    /\ Count("Error", 1) = 1
    /\ Count("Fail", 1) = 1
    /\ Count("function_to_test", 1) = 1
    /\ Count("function_to_test", 2) = 1

\* C12: an enabled suite with no cases returns an accumulator whose five
\* counters are zero and whose message sequences are empty, and calls neither
\* before_all nor after_all nor the function under test nor a comparator.
C12_EmptySuiteReturnsEmptyResults ==
    (is_enabled /\ Len(tests) = 0) =>
        /\ Errors(results) = U32(0)
        /\ Failed(results) = U32(0)
        /\ Passed(results) = U32(0)
        /\ Skipped(results) = U32(0)
        /\ Total(results) = U32(0)
        /\ ErrorMessages(results) = <<>>
        /\ FailureMessages(results) = <<>>
        /\ SkipMessages(results) = <<>>
        /\ \A k \in DOMAIN trace : trace[k].call \notin UserCalls
        /\ pc \in {"start", "returned"}

\* C12 witness: an enabled suite without cases returned, though it has a
\* before_all, an after_all and a suite comparator.
C12_Witness ==
    /\ pc = "returned"
    /\ is_enabled
    /\ tests = <<>>
    /\ before_all # NullOpt
    /\ after_all # NullOpt
    /\ suite_Compare # NullOpt
    /\ cout = <<"{construction}Skipping suite: My Suite because it is empty.">>

\* C13: for present hooks f and g, a call of the hook Coalesce(f, g) returned,
\* made at any time after Coalesce returned, calls f once and then g once, in
\* that order, and calls nothing else (g not being reached when f itself
\* raises).
C13_CoalescedHookCallsFirstThenSecond ==
    invoked.hook = Lambda =>
        \/ invoked.calls = <<fn1, fn2>>
        \/ /\ invoked.calls = <<fn1>>
           /\ invoked.outcome = "raised"
           /\ invoked.raised_by = fn1

\* The one of two optional hooks that is present, when exactly one is.
OnlyPresent(first, second) == IF first # NullOpt THEN first ELSE second

\* C14: Coalesce(absent, absent) is absent; when exactly one argument is
\* present, in either position, the result is that hook itself, and a call of
\* it runs that hook and nothing else, once.
C14_CoalesceReturnsTheOnlyPresentHook ==
    (fn1 = NullOpt \/ fn2 = NullOpt) =>
        /\ coalesced # NotCalled =>
               /\ (fn1 = NullOpt /\ fn2 = NullOpt) => coalesced = NullOpt
               /\ (fn1 # NullOpt /\ fn2 = NullOpt) => coalesced = fn1
               /\ (fn1 = NullOpt /\ fn2 # NullOpt) => coalesced = fn2
        /\ invoked.outcome # "none" =>
               /\ invoked.hook = OnlyPresent(fn1, fn2)
               /\ invoked.hook \in Hooks
               /\ invoked.calls = <<OnlyPresent(fn1, fn2)>>
               /\ invoked.outcome \in {"returned", "raised"}
               /\ invoked.outcome = "raised" =>
                      invoked.raised_by = OnlyPresent(fn1, fn2)
        /\ Len(lines) = MaxCalls - calls
        /\ \A k \in DOMAIN lines : lines[k] = OnlyPresent(fn1, fn2)

\* C14 witness: Coalesce(nullopt, fn2) returned fn2, which was called once
\* and returned.
C14_Witness ==
    /\ fn1 = NullOpt
    /\ fn2 = "Line 2"
    /\ coalesced = "Line 2"
    /\ invoked.calls = <<"Line 2">>
    /\ invoked.outcome = "returned"
    /\ lines = <<"Line 2">>

\* C15: InterceptCout runs the function with std::cout writing to a buffer in
\* memory, returns exactly the text written during the call, and leaves
\* std::cout with the stream buffer it had at entry on every way out, also
\* when the function raises.
C15_InterceptCoutRestoresCout ==
    capture.outcome # "none" =>
        /\ capture.at_exit = capture.saved_buffer
        /\ rdbuf = capture.saved_buffer
        /\ capture.outcome = "returned" =>
               capture.returned = Str(capture.function.writes)

\* after is before + 1 computed in uint32_t
IncreasedByOne(after, before) == IsSumU32(after, before, U32(1))

\* C16: Error() and Error(message) increase errors by one and leave total,
\* failed, passed, skipped, the failure messages and the skip messages as
\* they were; Error(message) appends that message to the end of the error
\* messages and Error() leaves the error messages as they were.
C16_ErrorFrame ==
    last.op \in {"Error", "ErrorMsg"} =>
        /\ IncreasedByOne(Errors(last.out), Errors(last.this))
        /\ Total(last.out) = Total(last.this)
        /\ Failed(last.out) = Failed(last.this)
        /\ Passed(last.out) = Passed(last.this)
        /\ Skipped(last.out) = Skipped(last.this)
        /\ FailureMessages(last.out) = FailureMessages(last.this)
        /\ SkipMessages(last.out) = SkipMessages(last.this)
        /\ ErrorMessages(last.out)
              = IF last.op = "ErrorMsg"
                   THEN ErrorMessages(last.this) \o <<last.arg>>
                   ELSE ErrorMessages(last.this)

\* C16 witness: Error("y") on an accumulator that holds a passed test and the
\* error message "x".
C16_Witness ==
    /\ last.op = "ErrorMsg"
    /\ last.arg = "y"
    /\ Total(last.this) = U32(1)
    /\ Passed(last.this) = U32(1)
    /\ ErrorMessages(last.this) = <<"x">>
    /\ ErrorMessages(last.out) = <<"x", "y">>
    /\ Errors(last.out) = U32(2)
    /\ Total(last.out) = U32(1)

\* The counter a Record operation counts in, besides total.
OwnCounter(op, r) ==
    CASE op \in {"Fail", "FailMsg"} -> Failed(r)
      [] op = "Pass"                -> Passed(r)
      [] op \in {"Skip", "SkipMsg"} -> Skipped(r)

\* C17: Fail, Pass and Skip each increase total by one and their own counter
\* (failed, passed, skipped) by one and leave every other counter as it was;
\* Fail(m) and Skip(m) append m to the end of their own message sequence
\* only; Fail(), Skip() and Pass() leave the three message sequences as they
\* were.
C17_FailPassSkipFrame ==
    last.op \in {"Fail", "FailMsg", "Pass", "Skip", "SkipMsg"} =>
        /\ IncreasedByOne(Total(last.out), Total(last.this))
        /\ IncreasedByOne(OwnCounter(last.op, last.out),
                          OwnCounter(last.op, last.this))
        /\ Errors(last.out) = Errors(last.this)
        /\ last.op \notin {"Fail", "FailMsg"} =>
               Failed(last.out) = Failed(last.this)
        /\ last.op # "Pass" => Passed(last.out) = Passed(last.this)
        /\ last.op \notin {"Skip", "SkipMsg"} =>
               Skipped(last.out) = Skipped(last.this)
        /\ ErrorMessages(last.out) = ErrorMessages(last.this)
        /\ FailureMessages(last.out)
              = IF last.op = "FailMsg"
                   THEN FailureMessages(last.this) \o <<last.arg>>
                   ELSE FailureMessages(last.this)
        /\ SkipMessages(last.out)
              = IF last.op = "SkipMsg"
                   THEN SkipMessages(last.this) \o <<last.arg>>
                   ELSE SkipMessages(last.this)

\* C17 witness: Skip("y") on an accumulator that holds the failure "x" and
\* the skip "x".
C17_Witness ==
    /\ last.op = "SkipMsg"
    /\ last.arg = "y"
    /\ FailureMessages(last.this) = <<"x">>
    /\ SkipMessages(last.this) = <<"x">>
    /\ SkipMessages(last.out) = <<"x", "y">>
    /\ FailureMessages(last.out) = <<"x">>
    /\ Skipped(last.out) = U32(2)
    /\ Total(last.out) = U32(3)

\* C18: r += r doubles every counter of r and leaves each message sequence
\* equal to what it was followed by a copy of itself.
C18_SelfCombineDoubles ==
    (last.op = "PlusAssign" /\ last.aliased) =>
        /\ IsSumU32(Errors(last.out), Errors(last.this), Errors(last.this))
        /\ IsSumU32(Failed(last.out), Failed(last.this), Failed(last.this))
        /\ IsSumU32(Passed(last.out), Passed(last.this), Passed(last.this))
        /\ IsSumU32(Skipped(last.out), Skipped(last.this), Skipped(last.this))
        /\ IsSumU32(Total(last.out), Total(last.this), Total(last.this))
        /\ ErrorMessages(last.out)
              = ErrorMessages(last.this) \o ErrorMessages(last.this)
        /\ FailureMessages(last.out)
              = FailureMessages(last.this) \o FailureMessages(last.this)
        /\ SkipMessages(last.out)
              = SkipMessages(last.this) \o SkipMessages(last.this)

\* C19: operator+ is associative on whole accumulators: (A + B) + C and
\* A + (B + C) have the same counters and the same message sequences, order
\* included.  Stated of every sum A + B the caller has just formed, with any
\* accumulator it holds as C, on either side.
C19_PlusIsAssociative ==
    last.op = "Plus" =>
        \A c \in Objects :
            /\ Plus(last.out, obj[c])
                  = Plus(last.this, Plus(last.other, obj[c]))
            /\ Plus(obj[c], last.out)
                  = Plus(Plus(obj[c], last.this), last.other)

\* C19 witness: a sum A + B of two different accumulators that both hold
\* error messages, whose error counts wrap when added, and a third
\* accumulator C different from the sum.
C19_Witness ==
    /\ last.op = "Plus"
    /\ last.this # last.other
    /\ ErrorMessages(last.this) # <<>>
    /\ ErrorMessages(last.other) # <<>>
    /\ Wraps(Errors(last.this), Errors(last.other))
    /\ \E c \in Objects :
           /\ obj[c] # last.out
           /\ Len(FailureMessages(Plus(last.out, obj[c]))) = 6

\* The number of times message occurs in messages.
Occurrences(messages, message) ==
    Cardinality({k \in DOMAIN messages : messages[k] = message})

\* The messages of a sequence, as a set.
MessagesOf(messages) == {messages[k] : k \in DOMAIN messages}

\* One sequence is a rearrangement of the other.
IsPermutation(left, right) ==
    /\ Len(left) = Len(right)
    /\ \A message \in MessagesOf(left) \cup MessagesOf(right) :
           Occurrences(left, message) = Occurrences(right, message)

\* Both sequences hold messages and no message of one is a message of the
\* other.
NotInterchangeable(left, right) ==
    /\ left # <<>>
    /\ right # <<>>
    /\ MessagesOf(left) \cap MessagesOf(right) = {}

\* C20: operator+ is commutative in its counters only: the five counters of
\* A + B are those of B + A, each message sequence of A + B is a
\* rearrangement of that of B + A, and the two sequences differ whenever A
\* and B both hold messages of that kind and share none.
C20_PlusCommutesInCountersOnly ==
    last.op = "Plus" =>
        LET ab == last.out
            ba == Plus(last.other, last.this)
        IN  /\ Errors(ab) = Errors(ba)
            /\ Failed(ab) = Failed(ba)
            /\ Passed(ab) = Passed(ba)
            /\ Skipped(ab) = Skipped(ba)
            /\ Total(ab) = Total(ba)
            /\ IsPermutation(ErrorMessages(ab), ErrorMessages(ba))
            /\ IsPermutation(FailureMessages(ab), FailureMessages(ba))
            /\ IsPermutation(SkipMessages(ab), SkipMessages(ba))
            /\ NotInterchangeable(ErrorMessages(last.this), ErrorMessages(last.other))
                  => ErrorMessages(ab) # ErrorMessages(ba)
            /\ NotInterchangeable(FailureMessages(last.this), FailureMessages(last.other))
                  => FailureMessages(ab) # FailureMessages(ba)
            /\ NotInterchangeable(SkipMessages(last.this), SkipMessages(last.other))
                  => SkipMessages(ab) # SkipMessages(ba)

\* C20 witness: A + B where A and B hold different messages of every kind
\* and different error counts.
C20_Witness ==
    /\ last.op = "Plus"
    /\ Errors(last.this) # Errors(last.other)
    /\ ErrorMessages(last.out) = <<"e1", "e2">>
    /\ FailureMessages(last.out) = <<"f1", "g1", "f2", "g2">>
    /\ SkipMessages(last.out) = <<"s1", "s2">>
    /\ ErrorMessages(Plus(last.other, last.this)) = <<"e2", "e1">>

\* Every object of the caller except the one its last statement wrote holds
\* what it held before the statement.
OthersUnchanged ==
    \A m \in Objects \ {last.target} : obj[m] = last.before[m]

\* C21: A + B leaves A and B as they were, all counters and message
\* sequences, and A += B for distinct objects A and B leaves B as it was.
\* (A statement that stores A + B into A or B changes that object by the
\* assignment; the other operand is still as it was.)
C21_CombinationLeavesOperandsUnchanged ==
    /\ last.op = "Plus" =>
           /\ OthersUnchanged
           /\ last.target = Temporary => obj = last.before
    /\ (last.op = "PlusAssign" /\ ~last.aliased) =>
           /\ OthersUnchanged
           /\ \E m \in Objects \ {last.target} :
                  /\ last.before[m] = last.other
                  /\ obj[m] = last.other

\* C21 witness: third = A + B for two different accumulators that hold
\* messages, both found as they were, with a result different from both.
C21_Witness ==
    /\ last.op = "Plus"
    /\ last.target = Temporary
    /\ last.this # last.other
    /\ FailureMessages(last.this) # <<>>
    /\ FailureMessages(last.other) # <<>>
    /\ last.out # last.this
    /\ last.out # last.other
    /\ \E i \in Objects, j \in Objects :
           /\ i # j
           /\ obj[i] = last.this
           /\ obj[j] = last.other

\* C22: the in-place and the pure combination agree: after A += B, A has the
\* counters and message sequences that A + B returns for the values A and B
\* had before, for all A and B (B being A itself included).
C22_PlusAssignAgreesWithPlus ==
    last.op = "PlusAssign" =>
        /\ last.out = Plus(last.this, last.other)
        /\ obj[last.target] = Plus(last.this, last.other)

C30_CopiesAreIndependent ==
    /\ last.op = "Copy" =>
           /\ Errors(last.out) = Errors(last.other)
           /\ Failed(last.out) = Failed(last.other)
           /\ Passed(last.out) = Passed(last.other)
           /\ Skipped(last.out) = Skipped(last.other)
           /\ Total(last.out) = Total(last.other)
           /\ ErrorMessages(last.out) = ErrorMessages(last.other)
           /\ FailureMessages(last.out) = FailureMessages(last.other)
           /\ SkipMessages(last.out) = SkipMessages(last.other)
           /\ obj[last.target] = last.out
           /\ OthersUnchanged
    /\ last.op \in {"Error", "ErrorMsg", "Fail", "FailMsg", "Pass", "Skip",
                    "SkipMsg", "PlusAssign"} =>
           OthersUnchanged

\* C30 witness: two objects that held the same skip message, as an original
\* and its copy do; Fail("y") on one of them changed it and left the other.
C30_Witness ==
    /\ last.op = "FailMsg"
    /\ last.arg = "y"
    /\ last.before[1] = last.before[2]
    /\ SkipMessages(last.this) = <<"x">>
    /\ \E m \in Objects \ {last.target} :
           /\ obj[m] = last.before[m]
           /\ obj[m] # obj[last.target]
           /\ FailureMessages(obj[m]) = <<>>
    /\ FailureMessages(obj[last.target]) = <<"y">>

\* The decimal numerals of the counters the printed accumulators hold.
Numeral(n) ==
    CASE n = U32(0) -> "0"
      [] n = U32(2) -> "2"
      [] n = U32(3) -> "3"
      [] n = U32(4) -> "4"
      [] n = U32(5) -> "5"
      [] n = U32(12) -> "12"
      [] n = UINT32_MAX -> "4294967295"

\* The number of lines of a block with n messages.
BlockLength(n) == IF n > 0 THEN n + 1 ELSE 0

\* Lines at + 1 .. at + BlockLength(Len(messages)) of os are the block of
\* messages: nothing if there is none, else the header and then each message
\* behind the prefix, in stored order.
BlockAt(at, header, prefix, messages) ==
    Len(messages) > 0 =>
        /\ os[at + 1] = header
        /\ \A n \in 1..Len(messages) : os[at + 1 + n] = prefix \o messages[n]

\* What the k-th call of PrintResults wrote is the three blocks and the
\* summary of the accumulator it was given.
PrintedAsSpecified(k) ==
    LET r == printed[k].results
        at == printed[k].at
        end == IF k < Len(printed) THEN printed[k + 1].at ELSE Len(os)
        skips == BlockLength(Len(SkipMessages(r)))
        failures == BlockLength(Len(FailureMessages(r)))
        errors == BlockLength(Len(ErrorMessages(r)))
        summary == at + skips + failures + errors
        written == {os[n] : n \in (at + 1)..end}
    IN  /\ end = summary + 5
        /\ BlockAt(at, "Skipped:", "{construction}Skipped: ", SkipMessages(r))
        /\ BlockAt(at + skips, "Failures:", "{cross}FAILED: ",
                   FailureMessages(r))
        /\ BlockAt(at + skips + failures, "Errors:", "{fire}ERROR: ",
                   ErrorMessages(r))
        /\ "Skipped:" \in written <=> SkipMessages(r) # <<>>
        /\ "Failures:" \in written <=> FailureMessages(r) # <<>>
        /\ "Errors:" \in written <=> ErrorMessages(r) # <<>>
        /\ os[summary + 1] = "Total tests: " \o Numeral(Total(r))
        /\ os[summary + 2] = "Passed:      " \o Numeral(Passed(r)) \o " {check}"
        /\ os[summary + 3] = "Failed:      " \o Numeral(Failed(r)) \o " {cross}"
        /\ os[summary + 4] =
               "Skipped:     " \o Numeral(Skipped(r)) \o " {construction}"
        /\ os[summary + 5] = "Errors:      " \o Numeral(Errors(r)) \o " {fire}"

\* C26: PrintResults writes, in this order, a "Skipped:" block iff there are
\* skip messages, a "Failures:" block iff there are failure messages, an
\* "Errors:" block iff there are error messages, each listing its messages in
\* stored order behind its prefix, and then always the five summary lines with
\* the counters; a block depends on the message sequence, not on the counter.
C26_PrintResultsBlocksAndSummary ==
    \A k \in 1..Len(printed) : PrintedAsSpecified(k)

\* C26 witness: the accumulator of TEST(PrintResults, ShouldDoTheThing) was
\* printed as the test expects, and after it one with failure messages but
\* Failed() == 0 and with Errors() == 2 but no error message.
C26_Witness ==
    /\ Len(printed) = 2
    /\ printed[1].results = ShouldDoTheThing
    /\ SubSeq(os, 1, 11) =
           <<"Skipped:",
             "{construction}Skipped: skip with a message",
             "Failures:",
             "{cross}FAILED: fail with a message",
             "Errors:",
             "{fire}ERROR: error with a message",
             "Total tests: 12",
             "Passed:      5 {check}",
             "Failed:      3 {cross}",
             "Skipped:     4 {construction}",
             "Errors:      2 {fire}">>
    /\ Failed(printed[2].results) = U32(0)
    /\ FailureMessages(printed[2].results) = <<"x", "y">>
    /\ Errors(printed[2].results) = U32(2)
    /\ ErrorMessages(printed[2].results) = <<>>
    /\ Total(printed[2].results) = UINT32_MAX
    /\ SkipMessages(printed[2].results) = <<>>
    /\ SubSeq(os, 12, Len(os)) =
           <<"Failures:",
             "{cross}FAILED: x",
             "{cross}FAILED: y",
             "Total tests: 4294967295",
             "Passed:      5 {check}",
             "Failed:      0 {cross}",
             "Skipped:     4 {construction}",
             "Errors:      2 {fire}">>

\* The state in which the seven-parameter ExecuteSuite starts when it is
\* called with the fields of the tuple as its arguments.
StartsWithFieldsOf(tuple) ==
    /\ suite_label = Get(0, tuple)
    /\ tests = Get(2, tuple)
    /\ suite_Compare = Get(3, tuple)
    /\ before_all = Get(4, tuple)
    /\ after_all = Get(5, tuple)
    /\ is_enabled = Get(6, tuple)
    /\ it = 0
    /\ results = EmptyResults
    /\ trace = <<>>
    /\ cout = <<>>

\* C23: ExecuteSuite applied to a TestSuite tuple behaves as the
\* seven-parameter ExecuteSuite applied to the tuple's fields: once the tuple
\* is unpacked the run starts in the state the seven-parameter form starts in
\* with those fields as arguments, the arguments stay the tuple's fields, and
\* every step after is a step of the seven-parameter form, so the calls, the
\* progress output and the returned accumulator are the same, for enabled,
\* disabled and empty suites.
C23_TupleOverloadIsTheSevenParameterForm ==
    /\ [](pc = "start" => StartsWithFieldsOf(test_suite))
    /\ [](pc \notin {"call", "start"} =>
              <<suite_label, tests, suite_Compare, before_all, after_all,
                is_enabled>>
              = <<Get(0, test_suite), Get(2, test_suite), Get(3, test_suite),
                  Get(4, test_suite), Get(5, test_suite), Get(6, test_suite)>>)
    /\ [][pc # "call" => Next]_vars

\* C23 witness: the run of an enabled tuple of two cases with a comparator
\* and both hooks returned, both hooks called, the first as before_all and
\* the second as after_all.
C23_Witness ==
    /\ pc = "returned"
    /\ test_suite \in TestSuites
    /\ Get(6, test_suite)
    /\ Len(Get(2, test_suite)) = 2
    /\ Get(3, test_suite) = "always_true"
    /\ trace[1] = HookEvent("before_all", 0, Get(4, test_suite), "returned")
    /\ trace[Len(trace)] =
           HookEvent("after_all", 0, Get(5, test_suite), "returned")
    /\ Get(4, test_suite) # Get(5, test_suite)
    /\ Total(results) = U32(2)

\* The positions in trace of the calls of one function of the user.
CallsOf(fn) == {k \in DOMAIN trace : trace[k].fn = fn}

\* The cases of the tuple that are executed, not skipped.
ExecutedCases ==
    {n \in 1..Len(Get(2, test_suite)) : Get(2, test_suite)[n].is_enabled}

\* C29: the fifth and sixth elements of a TestSuite, which MakeTestSuite
\* takes as before_each and after_each, are executed before each test and
\* after each test of the suite: in a run that returned, once per executed
\* case.
C29_SuiteHooksRunForEachCase ==
    (pc = "returned" /\ test_suite \in TestSuites /\ Get(6, test_suite)
        /\ Len(Get(2, test_suite)) > 0) =>
        /\ Get(4, test_suite) # NullOpt =>
               Cardinality(CallsOf(Get(4, test_suite)))
               = Cardinality(ExecutedCases)
        /\ Get(5, test_suite) # NullOpt =>
               Cardinality(CallsOf(Get(5, test_suite)))
               = Cardinality(ExecutedCases)

\* The text of the FAILED line of case n: the comparison of what Compare was
\* called with.
FailedText(n) ==
    LET k == CHOOSE k \in Events("Compare", n) : TRUE
    IN  FailureText(trace[k].expected, trace[k].actual)

\* The progress lines of case n of a complete run.
CaseProgress(n) ==
    LET name == tests[n].test_name
    IN  IF ~tests[n].is_enabled
            THEN <<"  {construction}Skipping Test: " \o name>>
            ELSE <<"  Beginning Test: " \o name>>
                 \o (IF Raised(n)
                        THEN <<"    {fire}ERROR: "
                               \o CategoryText(Payloads[tests[n].input_params[1]])>>
                        ELSE <<>>)
                 \o <<IF Count("Pass", n) = 1
                         THEN "    {check}PASSED"
                         ELSE "    {cross}FAILED: " \o FailedText(n)>>
                 \o <<"  Ending Test: " \o name>>

\* The progress lines of the first n cases.
RECURSIVE Progress(_)
Progress(n) == IF n = 0 THEN <<>> ELSE Progress(n - 1) \o CaseProgress(n)

\* C24: the progress lines of a complete run of an enabled, non-empty suite
\* are the Beginning Suite line; for each case in order either the one
\* Skipping Test line (disabled case) or Beginning Test, an ERROR line iff the
\* function under test raised, exactly one of PASSED and FAILED, and Ending
\* Test; and last the Ending Suite line.  For one enabled passing case these
\* are the five lines Beginning Suite, Beginning Test, PASSED, Ending Test,
\* Ending Suite, with passed == 1 and total == 1.
C24_ProgressLinesOfACompleteRun ==
    (pc = "returned" /\ is_enabled /\ Len(tests) >= 1) =>
        /\ cout = <<"{rocket}Beginning Suite: " \o suite_label>>
                  \o Progress(Len(tests))
                  \o <<"Ending Suite: " \o suite_label>>
        /\ \A n \in 1..Len(tests) :
               tests[n].is_enabled => Count("Pass", n) + Count("Fail", n) = 1
        /\ (Len(tests) = 1 /\ tests[1].is_enabled /\ ~Raised(1)
                /\ Count("Pass", 1) = 1) =>
               /\ cout = <<"{rocket}Beginning Suite: My Suite",
                           "  Beginning Test: " \o tests[1].test_name,
                           "    {check}PASSED",
                           "  Ending Test: " \o tests[1].test_name,
                           "Ending Suite: My Suite">>
               /\ Passed(results) = U32(1)
               /\ Total(results) = U32(1)
               /\ Failed(results) = U32(0)

\* C24 witness: a complete run of two cases, the first raising and failing,
\* the second disabled: seven lines, an ERROR and a FAILED line among them.
C24_Witness ==
    /\ pc = "returned"
    /\ is_enabled
    /\ Len(tests) = 2
    /\ tests[1].is_enabled
    /\ Raised(1)
    /\ Count("Fail", 1) = 1
    /\ ~tests[2].is_enabled
    /\ Len(cout) = 7
    /\ cout[3] = "    {fire}ERROR: Caught exception \"std::exception\"."
    /\ cout[6] = "  {construction}Skipping Test: " \o tests[2].test_name

\* A complete run of one enabled case that expects true, has no comparator
\* of its own or of the suite, and whose function under test raises a
\* std::exception described as "std::exception".
OneRaisingCaseExpectingTrue ==
    /\ pc = "returned"
    /\ is_enabled
    /\ Len(tests) = 1
    /\ tests[1].is_enabled
    /\ tests[1].expected_output = TRUE
    /\ tests[1].input_params = <<"exception">>
    /\ tests[1].test_compare_function = NullOpt
    /\ suite_Compare = NullOpt

\* C25: for a case that expects true and whose function under test raises a
\* std::exception described as "std::exception", the returned accumulator
\* holds exactly one error, whose message ends with
\* Caught exception "std::exception". and exactly one fail, whose message is
\* (behind the qualified label of the case) expected: "1", actual: "0".
C25_RaisingCaseExpectingTrueFails ==
    OneRaisingCaseExpectingTrue =>
        /\ Errors(results) = U32(1)
        /\ ErrorMessages(results) =
               <<suite_label \o "::" \o tests[1].test_name
                 \o " Caught exception \"std::exception\".">>
        /\ Failed(results) = U32(1)
        /\ FailureMessages(results) =
               <<suite_label \o "::" \o tests[1].test_name
                 \o " expected: \"1\", actual: \"0\"">>

\* A hook or a comparator has raised: what the failure boundary of Step 2c
\* does not cover.
HookOrCompareRaised ==
    \E k \in DOMAIN trace :
        /\ trace[k].call \in UserCalls \ {"function_to_test"}
        /\ trace[k].outcome = "raised"

\* ExecuteSuite has returned its accumulator after going through every case
\* and, last of all calls, after_all if there is one.
RanToCompletion ==
    /\ pc = "returned"
    /\ is_enabled
    /\ Len(tests) >= 1
    /\ \A n \in 1..Len(tests) : Processed(n)
    /\ after_all # NullOpt =>
           trace[Len(trace)] = HookEvent("after_all", 0, after_all, "returned")
    /\ cout[Len(cout)] = "Ending Suite: " \o suite_label
    /\ Total(results) = U32(Len(tests))

\* C27: once an enabled, non-empty suite has begun, and provided every hook
\* and comparator call returns and every call of the function under test
\* returns or raises, ExecuteSuite eventually calls after_all (if present) and
\* then returns its accumulator, however many cases failed or raised; no run
\* is abandoned unless a hook or a comparator raised.
C27_BegunSuiteRunsToCompletion ==
    /\ (pc = "start" /\ is_enabled /\ Len(tests) >= 1)
           ~> (HookOrCompareRaised \/ RanToCompletion)
    /\ [](pc = "propagated" => HookOrCompareRaised)

\* C27 witness: a run of two cases, the first raising and the second failing,
\* in which no hook and no comparator raised, has called after_all and
\* returned.
C27_Witness ==
    /\ RanToCompletion
    /\ is_enabled
    /\ Len(tests) = 2
    /\ Raised(1)
    /\ Count("Fail", 2) = 1
    /\ after_all # NullOpt
    /\ ~HookOrCompareRaised
    /\ Errors(results) = U32(1)

\* A message sequence is not longer than its counter, for a counter that has
\* not wrapped.
NotLongerThan(messages, counter) ==
    counter[1] > 0 \/ Len(messages) <= counter[2]

\* No message sequence of r is longer than its counter.
MessagesWithinCounters(r) ==
    /\ NotLongerThan(ErrorMessages(r), Errors(r))
    /\ NotLongerThan(FailureMessages(r), Failed(r))
    /\ NotLongerThan(SkipMessages(r), Skipped(r))

\* C35: in an accumulator built from the empty TestResults by Error, Fail,
\* Pass and Skip calls and by combinations, without wraparound, no message
\* sequence is longer than its counter, and Pass adds no message.
C35_MessagesNeverOutnumberCounters ==
    /\ \A i \in Objects : MessagesWithinCounters(obj[i])
    /\ MessagesWithinCounters(last.out)
    /\ last.op = "Pass" =>
           /\ ErrorMessages(last.out) = ErrorMessages(last.this)
           /\ FailureMessages(last.out) = FailureMessages(last.this)
           /\ SkipMessages(last.out) = SkipMessages(last.this)
           /\ Passed(last.out) # Passed(last.this)

\* C35 witness: the sum of an accumulator with a pass and one with a fail
\* with message: one failure message for the one fail, nothing for the pass.
C35_Witness ==
    /\ last.op = "Plus"
    /\ Passed(last.out) = U32(1)
    /\ Failed(last.out) = U32(1)
    /\ Total(last.out) = U32(2)
    /\ FailureMessages(last.out) = <<"x">>
    /\ ErrorMessages(last.out) = <<>>
    /\ SkipMessages(last.out) = <<>>

\* a < b as uint32_t
LessU32(a, b) == a[1] < b[1] \/ (a[1] = b[1] /\ a[2] < b[2])

\* out is the counter of a combination of counters a and b: their sum modulo
\* 2^32, which is their sum unless that exceeds 2^32 - 1 and is then smaller
\* than either.
WrappingSum(out, a, b) ==
    /\ IsSumU32(out, a, b)
    /\ Wraps(a, b) => (LessU32(out, a) /\ LessU32(out, b))
    /\ ~Wraps(a, b) => (~LessU32(out, a) /\ ~LessU32(out, b))

\* c++ left counter after: one more, or 0 after the largest uint32_t.
WrappingIncrement(after, c) ==
    IF c = UINT32_MAX THEN after = U32(0)
    ELSE IF c[2] = Limb - 1 THEN after = <<c[1] + 1, 0>>
    ELSE after = <<c[1], c[2] + 1>>

\* C38: the five counters are 32-bit unsigned and wrap modulo 2^32 under
\* Error, Fail, Pass, Skip and the combinations: total == failed + passed +
\* skipped keeps holding modulo 2^32 after an overflow, and once a sum exceeds
\* 2^32 - 1 the counter of a combination is not the mathematical sum of the
\* operands' counters (it is smaller than either).
C38_CountersWrapModulo2To32 ==
    /\ \A i \in Objects : TotalIsSum(obj[i])
    /\ TotalIsSum(last.out)
    /\ last.op \in {"Plus", "PlusAssign"} =>
           /\ WrappingSum(Errors(last.out), Errors(last.this), Errors(last.other))
           /\ WrappingSum(Failed(last.out), Failed(last.this), Failed(last.other))
           /\ WrappingSum(Passed(last.out), Passed(last.this), Passed(last.other))
           /\ WrappingSum(Skipped(last.out), Skipped(last.this), Skipped(last.other))
           /\ WrappingSum(Total(last.out), Total(last.this), Total(last.other))
    /\ last.op \in {"Error", "ErrorMsg"} =>
           WrappingIncrement(Errors(last.out), Errors(last.this))
    /\ last.op \in {"Fail", "FailMsg"} =>
           /\ WrappingIncrement(Failed(last.out), Failed(last.this))
           /\ WrappingIncrement(Total(last.out), Total(last.this))
    /\ last.op = "Pass" =>
           /\ WrappingIncrement(Passed(last.out), Passed(last.this))
           /\ WrappingIncrement(Total(last.out), Total(last.this))
    /\ last.op \in {"Skip", "SkipMsg"} =>
           /\ WrappingIncrement(Skipped(last.out), Skipped(last.this))
           /\ WrappingIncrement(Total(last.out), Total(last.this))

\* C38 witness: Fail() took failed and total from the largest uint32_t to 0,
\* and the sum of that accumulator and one at the limit wrapped in errors.
C38_Witness ==
    /\ last.op = "Plus"
    /\ Wraps(Errors(last.this), Errors(last.other))
    /\ Errors(last.out) = <<Limb - 1, Limb - 2>>
    /\ \E i \in Objects :
           /\ Failed(obj[i]) = U32(0)
           /\ Total(obj[i]) = U32(0)
           /\ Errors(obj[i]) = UINT32_MAX
    /\ TotalIsSum(last.out)

\* The enabled cases among the first n whose function under test raised.
RaisedAmong(n) == {m \in 1..n : tests[m].is_enabled /\ Raised(m)}

\* C37: what the resolved comparator raises, the case's or the suite's, is
\* outside the failure boundary: it is not recorded as an error, neither a
\* pass nor a fail is recorded for the case, and it leaves ExecuteSuite, so
\* that the case's after_each, the later cases and after_all are not run.
C37_ComparatorFailurePropagates ==
    \A k \in DOMAIN trace :
        (trace[k].call = "Compare" /\ trace[k].outcome = "raised") =>
            LET n == trace[k].test
            IN  /\ k = Len(trace)
                /\ pc = "propagated"
                /\ Count("Pass", n) = 0
                /\ Count("Fail", n) = 0
                /\ Count("after_each", n) = 0
                /\ \A j \in DOMAIN trace : trace[j].test <= n
                /\ Calls("after_all") = {}
                /\ Errors(results) = U32(Cardinality(RaisedAmong(n)))
                /\ Len(ErrorMessages(results)) = Cardinality(RaisedAmong(n))
                /\ Total(results) = U32(n - 1)
                /\ cout[Len(cout)] \notin
                       {"  Ending Test: " \o tests[n].test_name,
                        "Ending Suite: " \o suite_label}

\* C37 witness: in a suite with after_all, the suite's comparator raised in
\* the second case, whose function under test had raised and whose
\* after_each is present; the first case had been decided by its own
\* comparator.
C37_Witness ==
    /\ pc = "propagated"
    /\ Len(tests) = 2
    /\ after_all # NullOpt
    /\ tests[2].after_each # NullOpt
    /\ trace[Len(trace)].call = "Compare"
    /\ trace[Len(trace)].outcome = "raised"
    /\ trace[Len(trace)].test = 2
    /\ trace[Len(trace)].message = "suite"
    /\ Raised(2)
    /\ Errors(results) = U32(1)
    /\ Total(results) = U32(1)

\* C36: the disabled check precedes the empty check: a suite that is disabled
\* and has no cases is reported as skipped because it is disabled, never as
\* empty, returns an accumulator of zeros without messages, and calls no
\* hook, no comparator and no function under test.
C36_DisabledCheckPrecedesEmptyCheck ==
    (~is_enabled /\ tests = <<>> /\ pc # "start") =>
        /\ pc = "returned"
        /\ cout = <<"{construction}Skipping suite: " \o suite_label
                    \o " because it is disabled.">>
        /\ results = EmptyResults
        /\ trace = <<>>

\* C36 witness: a disabled suite without cases that has both hooks and a
\* comparator has returned.
C36_Witness ==
    /\ pc = "returned"
    /\ ~is_enabled
    /\ tests = <<>>
    /\ before_all # NullOpt
    /\ after_all # NullOpt
    /\ suite_Compare # NullOpt
    /\ Len(cout) = 1
    /\ Total(results) = U32(0)

\* The resolved comparator of case n accepts the expected output of the case
\* together with a default-valued actual.
AcceptsDefault(n) ==
    ApplyCompare(ResolveCompare(tests[n], suite_Compare).fn,
                 tests[n].expected_output, DefaultValue) = "true"

\* C33: if the function under test raises in an enabled case whose resolved
\* comparator accepts (expected, default-valued actual), as structural
\* equality does when expected is the default value and as a comparator that
\* always returns true does, the case is recorded as one error and one pass
\* with no fail, and the PASSED line is emitted after the ERROR line.  Stated
\* of the runs that return.
C33_RaisingCaseAcceptedPasses ==
    (pc = "returned" /\ is_enabled) =>
        \A n \in 1..Len(tests) :
            (tests[n].is_enabled /\ Raised(n) /\ AcceptsDefault(n)) =>
                /\ Count("Error", n) = 1
                /\ Count("Pass", n) = 1
                /\ Count("Fail", n) = 0
                /\ \E p \in DOMAIN cout :
                       /\ p + 2 <= Len(cout)
                       /\ cout[p] = "  Beginning Test: " \o tests[n].test_name
                       /\ cout[p + 1] = "    {fire}ERROR: "
                              \o CategoryText(Payloads[tests[n].input_params[1]])
                       /\ cout[p + 2] = "    {check}PASSED"

\* The cases among the first n that are enabled.
EnabledAmong(n) == {m \in 1..n : tests[m].is_enabled}

\* C32: during a run of an enabled, non-empty suite in which no hook and no
\* comparator raises, after the first k cases have been processed total is k,
\* skipped is the number of disabled cases among them, passed + failed is the
\* number of enabled cases among them and errors is the number of enabled
\* cases among them whose function under test raised, so errors is at most
\* passed + failed; on return k is the number of cases of the suite.
C32_CountersAfterKCases ==
    (is_enabled /\ Len(tests) >= 1 /\ pc \in {"test", "returned"}
        /\ ~HookOrCompareRaised) =>
        LET k == it - 1
        IN  /\ Total(results) = U32(k)
            /\ Skipped(results) = U32(k - Cardinality(EnabledAmong(k)))
            /\ AddU32(Passed(results), Failed(results))
                   = U32(Cardinality(EnabledAmong(k)))
            /\ Errors(results) = U32(Cardinality(RaisedAmong(k)))
            /\ ~LessU32(AddU32(Passed(results), Failed(results)),
                        Errors(results))
            /\ pc = "returned" => k = Len(tests)

\* C32 witness: between the first and the second case of a suite, after an
\* enabled case whose function under test raised: total 1, errors 1 and one
\* pass or fail, with a disabled case still to come.
C32_Witness ==
    /\ is_enabled
    /\ pc = "test"
    /\ it = 2
    /\ Len(tests) = 2
    /\ tests[1].is_enabled
    /\ Raised(1)
    /\ ~tests[2].is_enabled
    /\ Errors(results) = U32(1)
    /\ Total(results) = U32(1)
    /\ AddU32(Passed(results), Failed(results)) = U32(1)

\* The place of a call within the processing of one case.
Rank(call) ==
    CASE call \in {"before_each", "Skip"} -> 1
      [] call = "function_to_test" -> 2
      [] call = "Error" -> 3
      [] call = "Compare" -> 4
      [] call \in {"Pass", "Fail"} -> 5
      [] call = "after_each" -> 6
      [] OTHER -> 0

\* Call k of the trace belongs to a case and directly follows a call of the
\* same case that is one of the given callees and returned.
FollowsInCase(k, callees) ==
    /\ k > 1
    /\ trace[k - 1].test = trace[k].test
    /\ trace[k - 1].call \in callees
    /\ trace[k - 1].outcome # "raised"

\* C31: for each enabled case the calls are made in the order before_each
\* (if present), function under test, resolved comparator, after_each (if
\* present), each at most once, and every call of case i is over before any
\* call of case i + 1 is made: along the calls made so far the case number
\* never decreases and within a case the place in that order strictly
\* increases.
C31_CasesInSequenceCallsInOrder ==
    /\ \A k \in DOMAIN trace :
           LET e == trace[k]
               n == e.test
           IN  /\ e.call \in UserCalls \ {"before_all", "after_all"} =>
                      /\ n \in 1..Len(tests)
                      /\ is_enabled
                      /\ tests[n].is_enabled
               /\ e.call = "before_each" => e.fn = tests[n].before_each
               /\ e.call = "after_each" => e.fn = tests[n].after_each
               /\ e.call = "function_to_test" =>
                      IF tests[n].before_each = NullOpt
                          THEN k = 1 \/ trace[k - 1].test < n
                          ELSE FollowsInCase(k, {"before_each"})
               /\ e.call = "Compare" =>
                      FollowsInCase(k, {"function_to_test", "Error"})
               /\ e.call = "after_each" => FollowsInCase(k, {"Pass", "Fail"})
               /\ (k < Len(trace) /\ n > 0 /\ trace[k + 1].test > 0) =>
                      \/ trace[k + 1].test > n
                      \/ /\ trace[k + 1].test = n
                         /\ Rank(trace[k + 1].call) > Rank(e.call)
    /\ pc \in {"test", "returned"} =>
           \A n \in 1..(IF is_enabled THEN it - 1 ELSE Len(tests)) :
               /\ Count("function_to_test", n)
                      = (IF is_enabled /\ tests[n].is_enabled THEN 1 ELSE 0)
               /\ Count("Compare", n) = Count("function_to_test", n)
               /\ Count("before_each", n)
                      = (IF tests[n].before_each # NullOpt
                            THEN Count("function_to_test", n) ELSE 0)
               /\ Count("after_each", n)
                      = (IF tests[n].after_each # NullOpt
                            THEN Count("function_to_test", n) ELSE 0)

\* C31 witness: a run of two enabled cases that both have a before_each and
\* an after_each has returned, the function under test having raised in the
\* first case: four calls of the user's callables for each case.
C31_Witness ==
    /\ pc = "returned"
    /\ is_enabled
    /\ Len(tests) = 2
    /\ \A n \in 1..2 :
           /\ tests[n].is_enabled
           /\ tests[n].before_each # NullOpt
           /\ tests[n].after_each # NullOpt
           /\ Count("before_each", n) = 1
           /\ Count("function_to_test", n) = 1
           /\ Count("Compare", n) = 1
           /\ Count("after_each", n) = 1
    /\ Raised(1)
    /\ ~Raised(2)

\* The numbers of a set of cases, in case order.
RECURSIVE InCaseOrder(_)
InCaseOrder(S) ==
    IF S = {} THEN <<>>
    ELSE LET m == CHOOSE x \in S : \A y \in S : y <= x
         IN  Append(InCaseOrder(S \ {m}), m)

\* The cases that produced a fail record, a skip record, an error record.
FailedCases == {n \in 1..Len(tests) : Count("Fail", n) > 0}

SkippedCases == {n \in 1..Len(tests) : ~is_enabled \/ ~tests[n].is_enabled}

ErroredCases == {n \in 1..Len(tests) : is_enabled /\ tests[n].is_enabled /\ Raised(n)}

\* "<suite>::<case>" of case n.
LabelOf(n) == suite_label \o "::" \o tests[n].test_name

\* C34: in the accumulator returned by a complete ExecuteSuite run, of an
\* enabled or a disabled suite, the number of failure messages is failed, the
\* number of skip messages is skipped and the number of error messages is
\* errors; every message starts with the qualified label <suite>::<case> of
\* the case that produced it, and within each sequence the messages are in
\* case order.
C34_MessagesLabelledInCaseOrder ==
    pc = "returned" =>
        LET failed == InCaseOrder(FailedCases)
            skipped == InCaseOrder(SkippedCases)
            errored == InCaseOrder(ErroredCases)
        IN  /\ Failed(results) = U32(Len(FailureMessages(results)))
            /\ Skipped(results) = U32(Len(SkipMessages(results)))
            /\ Errors(results) = U32(Len(ErrorMessages(results)))
            /\ Len(FailureMessages(results)) = Len(failed)
            /\ Len(SkipMessages(results)) = Len(skipped)
            /\ Len(ErrorMessages(results)) = Len(errored)
            /\ \A i \in DOMAIN failed :
                   \E a \in TResult :
                       FailureMessages(results)[i]
                       = LabelOf(failed[i]) \o " "
                         \o FailureText(tests[failed[i]].expected_output, a)
            /\ \A i \in DOMAIN skipped :
                   SkipMessages(results)[i]
                   \in {LabelOf(skipped[i]),
                        LabelOf(skipped[i]) \o " because the suite is disabled."}
            /\ \A i \in DOMAIN errored :
                   ErrorMessages(results)[i]
                   = LabelOf(errored[i]) \o " "
                     \o CategoryText(Payloads[tests[errored[i]].input_params[1]])

\* C34 witness: a run of two enabled cases of different names has returned
\* with two failure messages and an error message.
C34_Witness ==
    /\ pc = "returned"
    /\ is_enabled
    /\ Len(tests) = 2
    /\ tests[1].test_name # tests[2].test_name
    /\ Len(FailureMessages(results)) = 2
    /\ FailureMessages(results)[1] # FailureMessages(results)[2]
    /\ Len(ErrorMessages(results)) = 1
    /\ Raised(2)

====
